---- MODULE Spec2Model ----
(***************************************************************************)
(* Model of the movie recommendation backend: the recommendation selector  *)
(* (apps/movies/services/recommendation_service.py), the provider cache    *)
(* (apps/movies/services/tmdb_service.py), the auth-tiered view cache     *)
(* (apps/movies/views.py and apps/movies/utils/cache.py) and the favorites *)
(* endpoints (MovieViewSet.favorite / remove_favorite and                  *)
(* FavoriteMovieViewSet over the FavoriteMovie table of models.py).        *)
(***************************************************************************)
EXTENDS Integers, Sequences, FiniteSets, TLC

\* ---------------------------------------------------------------- bounds
MaxMovies == 3
MaxUsers == 2
MaxLimit == 2

MovieIds == 1..MaxMovies
Users == 1..MaxUsers
Limits == 0..MaxLimit
\* The values a row's popularity, vote_average and genre_ids are drawn from.
Popularities == {0, 1}
Ratings == {0, 1}
GenreSets == SUBSET {1, 2}

\* Python's None and a present value, for the Optional fields of the dicts.
None == << >>
Some(x) == <<x>>

VARIABLES
    movies,      \* Movie table: tmdb_id -> row, or NoMovie when no such row
    favorites,   \* FavoriteMovie table: set of <<user, tmdb_id>>
    lastRec,     \* the last get_user_recommendations call: inputs and outcome
    tmdbCache,   \* provider cache: "tmdb:recommendations:<id>:page:1" -> payload
    lastSim,     \* the last get_similar_movies call: inputs and outcome
    viewCache,   \* Django cache, view_cache:* keys: key -> [data, ttl]
    config,      \* the cache_page_on_auth decorator in use and its arguments
    lastView,    \* the request just served by the decorated view, if any
    viewOwner,   \* history: view_cache key -> the <<caller, path>> that stored it
    procs,       \* concurrent requests for one cache key: each one's position
    lastWrite,   \* history: the last cache.set made by one of those requests
    accounts,    \* User table: the ids of the existing users
    favRows,     \* FavoriteMovie table: rows [id, user, movie, notes]
    nextId,      \* the primary key the next FavoriteMovie row gets
    lastFav,     \* the favorites request just served: inputs and outcome
    workers,     \* favorite-creating requests in flight, statement by statement
    lastList,    \* the listing request just served: inputs, upstream calls, response
    userRows,    \* User table: rows [username, email, password, is_active]
    tokens,      \* the token pairs issued so far: the set of usernames they name
    lastAuth,    \* the register / login request just served: inputs and response
    lastFetch,   \* the last _get_cached_or_fetch call: inputs and outcome
    lastInv      \* the last invalidate_user_cache call and the cache it found

vars == <<movies, favorites, lastRec, tmdbCache, lastSim, viewCache, config, lastView,
          viewOwner, procs, lastWrite, accounts, favRows, nextId, lastFav, workers,
          lastList, userRows, tokens, lastAuth, lastFetch, lastInv>>

recVars == <<movies, favorites, lastRec, tmdbCache, lastSim>>
viewVars == <<viewCache, config, lastView, viewOwner>>
raceVars == <<procs, lastWrite>>
favVars == <<accounts, favRows, nextId, lastFav, workers>>
apiVars == <<lastList, userRows, tokens, lastAuth, lastFetch, lastInv>>

\* ------------------------------------------------------------ data model
NoMovie == [exists |-> FALSE, popularity |-> 0, vote_average |-> 0, genre_ids |-> {}]

Movie == [exists : {TRUE}, popularity : Popularities, vote_average : Ratings,
          genre_ids : GenreSets]

Catalog == {m \in MovieIds : movies[m].exists}

\* FavoriteMovie.objects.filter(user=user): the tmdb_ids the user favorited.
FavoriteMovieIds(user) == {m \in MovieIds : <<user, m>> \in favorites}

\* ------------------------------------------------------- query operators
MinOf(a, b) == IF a < b THEN a ELSE b

\* Faulty variant of Before: the secondary key '-vote_average' is dropped.
BeforePopularityOnly(a, b) == movies[a].popularity > movies[b].popularity

\* order_by('-popularity', '-vote_average'): a sorts strictly before b.
Before(a, b) ==
    \/ movies[a].popularity > movies[b].popularity
    \/ /\ movies[a].popularity = movies[b].popularity
       /\ movies[a].vote_average > movies[b].vote_average

\* Every row order the database may return for the ORDER BY: a row no other
\* row sorts before comes first, then the rest; rows that tie on both keys come
\* in an unspecified order.
RECURSIVE OrderBy(_)
OrderBy(S) ==
    IF S = {} THEN {<< >>}
    ELSE UNION {{<<m>> \o rest : rest \in OrderBy(S \ {m})} :
                   m \in {x \in S : \A y \in S : ~Before(y, x)}}

\* queryset[:limit]
Slice(seq, limit) == SubSeq(seq, 1, MinOf(limit, Len(seq)))

\* genre_ids__overlap=ids
Overlap(m, ids) == movies[m].genre_ids \cap ids # {}

\* _movie_to_dict: a falsy popularity or vote_average (0) is rendered as None.
MovieToDict(m) ==
    [tmdb_id |-> m,
     popularity |-> IF movies[m].popularity # 0 THEN Some(movies[m].popularity) ELSE None,
     vote_average |-> IF movies[m].vote_average # 0 THEN Some(movies[m].vote_average) ELSE None,
     genre_ids |-> movies[m].genre_ids]

ToDicts(seq) == [i \in 1..Len(seq) |-> MovieToDict(seq[i])]

\* The genre ids collected from the user's favorites (lines 48-53).
FavoriteGenreIds(user) == UNION {movies[m].genre_ids : m \in FavoriteMovieIds(user)}

\* Faulty variant of RecommendationRows: the .exclude(tmdb_id__in=...) is dropped.
RecommendationRowsNoExclude(user) ==
    {m \in Catalog : Overlap(m, FavoriteGenreIds(user))}

\* The rows the personalized query selects (lines 59-62).
RecommendationRows(user) ==
    {m \in Catalog : Overlap(m, FavoriteGenreIds(user))} \ FavoriteMovieIds(user)

\* ----------------------------------------------------------------- calls
NoRec == [called |-> FALSE, user |-> 0, limit |-> 0, dbFail |-> "none",
          path |-> "none", raised |-> FALSE, result |-> << >>]

\* _get_popular_fallback(limit): the possible results.
PopularFallback(limit) == {ToDicts(Slice(o, limit)) : o \in OrderBy(Catalog)}

\* Faulty variant of RecommendBody: the `if not genre_ids` return is dropped, so a user
\* whose favorites carry no tag runs the personalized query.
RecommendBodyNoGenreCheck(user, limit) ==
    IF FavoriteMovieIds(user) = {}
    THEN {<<"no_favorites", r>> : r \in PopularFallback(limit)}
    ELSE {<<"personalized", ToDicts(Slice(o, limit))>> : o \in OrderBy(RecommendationRows(user))}

\* Faulty variant of RecommendBody: an empty personalized selection is replaced by the
\* popularity fallback.
RecommendBodyFallbackOnEmpty(user, limit) ==
    IF FavoriteMovieIds(user) = {} \/ FavoriteGenreIds(user) = {}
          \/ RecommendationRows(user) = {}
    THEN {<<"fallback", r>> : r \in PopularFallback(limit)}
    ELSE {<<"personalized", ToDicts(Slice(o, limit))>> : o \in OrderBy(RecommendationRows(user))}

\* The body of the try block of get_user_recommendations, when no query fails:
\* the set of <<path, result>> it may return.
RecommendBody(user, limit) ==
    IF FavoriteMovieIds(user) = {}
    THEN {<<"no_favorites", r>> : r \in PopularFallback(limit)}
    ELSE IF FavoriteGenreIds(user) = {}
    THEN {<<"no_genres", r>> : r \in PopularFallback(limit)}
    ELSE {<<"personalized", ToDicts(Slice(o, limit))>> : o \in OrderBy(RecommendationRows(user))}

\* get_user_recommendations(user, limit).  dbFail is the state of the data
\* layer during the call: "none" (every query succeeds), "steps" (a query of
\* the try block raises, the fallback's query succeeds), "all" (every query
\* raises, the one of the fallback in the except clause included).  The call
\* reads the tables and writes nothing, so one call per behaviour covers every
\* call.
GetUserRecommendations ==
    \E user \in Users, limit \in Limits, dbFail \in {"none", "steps", "all"} :
        /\ ~lastRec.called
        /\ \/ /\ dbFail = "none"
              /\ \E pr \in RecommendBody(user, limit) :
                    lastRec' = [called |-> TRUE, user |-> user, limit |-> limit,
                                dbFail |-> dbFail, path |-> pr[1], raised |-> FALSE,
                                result |-> pr[2]]
           \/ /\ dbFail = "steps"
              /\ \E r \in PopularFallback(limit) :
                    lastRec' = [called |-> TRUE, user |-> user, limit |-> limit,
                                dbFail |-> dbFail, path |-> "error_fallback",
                                raised |-> FALSE, result |-> r]
           \/ /\ dbFail = "all"
              /\ lastRec' = [called |-> TRUE, user |-> user, limit |-> limit,
                             dbFail |-> dbFail, path |-> "error_fallback",
                             raised |-> TRUE, result |-> << >>]
        /\ UNCHANGED <<movies, favorites, tmdbCache, lastSim, viewVars, raceVars, favVars,
                       apiVars>>

\* ------------------------------------------------- recommendation claims
\* The movies named by a result list.
ResultIds(res) == {res[i].tmdb_id : i \in 1..Len(res)}

\* popularity descending, then vote_average descending: row a ranks at least
\* as high as row b.
RanksAtLeast(a, b) ==
    \/ movies[a].popularity > movies[b].popularity
    \/ movies[a].popularity = movies[b].popularity
          /\ movies[a].vote_average >= movies[b].vote_average

\* res lists the first `limit` rows of S by (popularity desc, vote_average
\* desc): it has min(limit, |S|) distinct rows of S, in rank order, and no row
\* of S left out ranks strictly above a listed one.
IsTopOf(res, S, limit) ==
    /\ Len(res) = (IF limit < Cardinality(S) THEN limit ELSE Cardinality(S))
    /\ ResultIds(res) \subseteq S
    /\ Cardinality(ResultIds(res)) = Len(res)
    /\ \A i, j \in 1..Len(res) : i < j => RanksAtLeast(res[i].tmdb_id, res[j].tmdb_id)
    /\ \A m \in S \ ResultIds(res) : \A i \in 1..Len(res) : RanksAtLeast(res[i].tmdb_id, m)

\* The call returned and the data layer did not fail during it.
RecReturned == lastRec.called /\ lastRec.dbFail = "none"

\* The movies the user has favorited, read off the Favorite table.
FavsOf(u) == {f[2] : f \in {g \in favorites : g[1] = u}}

\* The tag union U of the user's favorites.
TagUnion(u) == {t \in UNION GenreSets : \E f \in FavsOf(u) : t \in movies[f].genre_ids}

\* The non-favorited movies that share a tag with some favorite.
Qualifying(u) ==
    {m \in MovieIds : movies[m].exists /\ m \notin FavsOf(u)
                      /\ \E t \in TagUnion(u) : t \in movies[m].genre_ids}

\* C1: with no data-layer failure, a user with no favorites, or whose
\* favorites' genre_ids union is empty, gets exactly the popularity fallback:
\* the first `limit` movies of the whole catalog by (popularity desc,
\* vote_average desc).
C1_FallbackWhenNoFavoritesOrNoTags ==
    (RecReturned /\ (FavsOf(lastRec.user) = {} \/ TagUnion(lastRec.user) = {}))
        => IsTopOf(lastRec.result, Catalog, lastRec.limit)

\* C1 witness: a user with favorites that carry no tag received two movies.
C1_Witness ==
    /\ RecReturned
    /\ FavsOf(lastRec.user) # {}
    /\ TagUnion(lastRec.user) = {}
    /\ Len(lastRec.result) >= 2

\* C2: with no data-layer failure, for a user whose favorites carry at least
\* one tag, every returned movie shares a genre id with some favorited movie
\* of that user and is not one of the user's favorites.
C2_SharesTagAndNotFavorited ==
    (RecReturned /\ TagUnion(lastRec.user) # {})
        => \A i \in 1..Len(lastRec.result) :
              /\ \E f \in FavsOf(lastRec.user) :
                    lastRec.result[i].genre_ids \cap movies[f].genre_ids # {}
              /\ lastRec.result[i].tmdb_id \notin FavsOf(lastRec.user)

\* C2 witness: a user with tagged favorites received a recommendation while
\* another favorite of theirs also overlaps the tag union.
C2_Witness ==
    /\ RecReturned
    /\ Cardinality(FavsOf(lastRec.user)) >= 2
    /\ \A f \in FavsOf(lastRec.user) : movies[f].genre_ids # {}
    /\ Len(lastRec.result) >= 1

NoOtherMovieSharesTag(u) == FavsOf(u) # {} /\ Qualifying(u) = {}

\* C4 as stated: a user whose favorites share no tag with any other movie gets
\* the popularity fallback.
C4_Original_FallbackWhenNoOverlap ==
    (RecReturned /\ NoOtherMovieSharesTag(lastRec.user))
        => IsTopOf(lastRec.result, Catalog, lastRec.limit)

\* C4 amended: a user whose favorites carry at least one tag but share no tag
\* with any non-favorited movie gets the empty list; the fallback is returned
\* when the tag union is empty.
C4_EmptyWhenNoOverlap ==
    (RecReturned /\ NoOtherMovieSharesTag(lastRec.user))
        => IF TagUnion(lastRec.user) = {}
           THEN IsTopOf(lastRec.result, Catalog, lastRec.limit)
           ELSE lastRec.result = << >>

\* C4 witness: tagged favorites, no overlap, a non-empty catalog and a positive
\* limit (the fallback would not be empty), and the empty list was returned.
C4_Witness ==
    /\ RecReturned
    /\ NoOtherMovieSharesTag(lastRec.user)
    /\ TagUnion(lastRec.user) # {}
    /\ Catalog \ FavsOf(lastRec.user) # {}
    /\ lastRec.limit > 0
    /\ lastRec.result = << >>

\* C5 as stated: get_user_recommendations never raises; whenever a step fails,
\* also when the failure affects the fallback's own query, it returns the
\* fallback list.
C5_NeverRaises ==
    lastRec.called =>
        /\ ~lastRec.raised
        /\ lastRec.dbFail # "none" => IsTopOf(lastRec.result, Catalog, lastRec.limit)

\* ------------------------------------------------------- provider cache
\* What cache.get returns for a missing key, and what the provider's JSON body
\* may be: null, a dict without a 'results' key, a dict with one.  "error" is a
\* failed request (requests.get or raise_for_status raises).
Payload(kind, has, res) == [kind |-> kind, has_results |-> has, results |-> res]

Absent == Payload("absent", FALSE, << >>)
RequestError == Payload("error", FALSE, << >>)
NullBody == Payload("null", FALSE, << >>)
NoResultsBody == Payload("dict", FALSE, << >>)

\* Provider result items, one more than the largest limit.
ProviderItems == [i \in 1..(MaxLimit + 1) |-> [id |-> i, genre_ids |-> {1}]]

ResultsBodies == {Payload("dict", TRUE, << >>), Payload("dict", TRUE, ProviderItems)}

ProviderResponses == {RequestError, NullBody, NoResultsBody} \cup ResultsBodies

\* Faulty variant of Truthy: only None and a missing value are falsy.
TruthyNotNone(p) == p.kind \notin {"absent", "null"}

\* Python truthiness of a payload: None and a missing entry are falsy, a
\* non-empty dict is truthy.
Truthy(p) == p.kind = "dict"

\* What the provider cache can hold: only truthy payloads are stored.
Storable == {p \in ProviderResponses : Truthy(p)}

\* The movie ids get_similar_movies is called with.
SimilarIds == {1, MaxMovies}

\* TMDbService._make_request: the body, or the exception re-raised.
MakeRequest(resp) ==
    IF resp.kind = "error"
    THEN [raised |-> TRUE, data |-> Absent]
    ELSE [raised |-> FALSE, data |-> resp]

\* TMDbService._get_cached_or_fetch(cache_key, fetch_func): a truthy cached
\* value is returned without fetching; otherwise the fetch runs once and a
\* truthy result is stored.
GetCachedOrFetch(cache, key, resp) ==
    IF Truthy(cache[key])
    THEN [raised |-> FALSE, data |-> cache[key], cache |-> cache, fetched |-> FALSE]
    ELSE LET r == MakeRequest(resp) IN
         [raised |-> r.raised, data |-> r.data, fetched |-> TRUE,
          cache |-> IF ~r.raised /\ Truthy(r.data)
                    THEN [cache EXCEPT ![key] = r.data] ELSE cache]

\* _tmdb_result_to_dict: the item's fields by .get, absent ones None.
TmdbResultToDict(item) ==
    [tmdb_id |-> item.id, popularity |-> None, vote_average |-> None,
     genre_ids |-> item.genre_ids]

TmdbToDicts(seq) == [i \in 1..Len(seq) |-> TmdbResultToDict(seq[i])]

\* The rows of the local fallback query of get_similar_movies (lines 140-143).
SimilarRows(movie_id) ==
    {m \in Catalog : Overlap(m, movies[movie_id].genre_ids)} \ {movie_id}

\* Faulty variant of CatchAll: the outer `except Exception` is missing.
CatchNothing(out) == out

\* The outer try/except of get_similar_movies (lines 153-155): any exception
\* becomes the empty list.
CatchAll(out) ==
    IF out.raised THEN [raised |-> FALSE, path |-> "error", result |-> << >>] ELSE out

\* The try block of get_similar_movies: the set of outcomes, given the data
\* obtained from the provider cache or the provider.
SimilarBody(movie_id, limit, got, dbFail) ==
    IF got.raised
    THEN {[raised |-> TRUE, path |-> "provider_error", result |-> << >>]}
    ELSE IF Truthy(got.data) /\ got.data.has_results
    THEN {[raised |-> FALSE, path |-> "provider",
           result |-> TmdbToDicts(Slice(got.data.results, limit))]}
    ELSE IF dbFail
    THEN {[raised |-> TRUE, path |-> "db_error", result |-> << >>]}
    ELSE IF ~movies[movie_id].exists
    THEN {[raised |-> FALSE, path |-> "missing", result |-> << >>]}
    ELSE {[raised |-> FALSE, path |-> "local", result |-> ToDicts(Slice(o, limit))] :
             o \in OrderBy(SimilarRows(movie_id))}

NoSim == [called |-> FALSE, movie_id |-> 0, limit |-> 0, resp |-> Absent,
          cached |-> Absent, dbFail |-> FALSE, fetched |-> FALSE,
          raised |-> FALSE, path |-> "none", result |-> << >>]

\* get_similar_movies(movie_id, limit).  resp is what the provider answers if
\* asked, dbFail whether the local queries raise.  One call per behaviour, from
\* every content of the provider cache.
GetSimilarMovies ==
    \E movie_id \in SimilarIds, limit \in Limits, resp \in ProviderResponses,
       dbFail \in BOOLEAN :
        /\ ~lastSim.called
        /\ LET got == GetCachedOrFetch(tmdbCache, movie_id, resp) IN
           /\ tmdbCache' = got.cache
           /\ \E body \in SimilarBody(movie_id, limit, got, dbFail) :
                 LET out == CatchAll(body) IN
                 lastSim' = [called |-> TRUE, movie_id |-> movie_id, limit |-> limit,
                             resp |-> IF got.fetched THEN resp ELSE Absent,
                             cached |-> tmdbCache[movie_id],
                             dbFail |-> dbFail, fetched |-> got.fetched,
                             raised |-> out.raised, path |-> out.path,
                             result |-> out.result]
        /\ UNCHANGED <<movies, favorites, lastRec, viewVars, raceVars, favVars, apiVars>>

\* ----------------------------------------------------- similar-movie claims
\* The provider's recommendations are unavailable: nothing usable is cached and
\* the request fails, or answers null or a body without results.
ProviderUnavailable ==
    /\ ~(lastSim.cached.kind = "dict")
    /\ lastSim.resp.kind \in {"error", "null"} \/ ~lastSim.resp.has_results

\* The local movies sharing a tag with the source movie, the source excluded.
TagOverlapWith(src) ==
    {m \in MovieIds : movies[m].exists /\ m # src
                      /\ \E t \in movies[src].genre_ids : t \in movies[m].genre_ids}

\* C6 as stated: whenever the provider's recommendations are unavailable (the
\* request fails or returns nothing usable), get_similar_movies returns the
\* local tag-overlap selection: the first `limit` local movies sharing a tag
\* with the source movie, the source excluded, by (popularity desc,
\* vote_average desc).
C6_LocalFallbackWhenUnavailable ==
    (lastSim.called /\ ProviderUnavailable /\ ~lastSim.dbFail
        /\ movies[lastSim.movie_id].exists)
        => IsTopOf(lastSim.result, TagOverlapWith(lastSim.movie_id), lastSim.limit)

\* Both the provider lookup and the local selection fail.
TotalFailure ==
    \/ ~(lastSim.cached.kind = "dict") /\ lastSim.resp.kind = "error"
    \/ ProviderUnavailable /\ (lastSim.dbFail \/ ~movies[lastSim.movie_id].exists)

\* The body the provider cache or the provider supplied to the call.
SuppliedBody == IF lastSim.cached.kind = "dict" THEN lastSim.cached ELSE lastSim.resp

\* The result lists the first `limit` provider items.
IsProviderList(res, items, limit) ==
    /\ Len(res) = (IF limit < Len(items) THEN limit ELSE Len(items))
    /\ \A i \in 1..Len(res) : res[i].tmdb_id = items[i].id

\* C7: get_similar_movies never raises and never returns the popularity
\* fallback: it returns the provider's list, else the local tag-overlap
\* selection, and on total failure (the provider yields nothing and the source
\* movie is not local, or any exception occurs) the empty list.
C7_EmptyOnTotalFailure ==
    lastSim.called =>
        /\ ~lastSim.raised
        /\ TotalFailure => lastSim.result = << >>
        /\ \/ lastSim.result = << >>
           \/ /\ SuppliedBody.has_results
              /\ IsProviderList(lastSim.result, SuppliedBody.results, lastSim.limit)
           \/ /\ ~SuppliedBody.has_results
              /\ movies[lastSim.movie_id].exists
              /\ IsTopOf(lastSim.result, TagOverlapWith(lastSim.movie_id), lastSim.limit)

\* C7 witness: the provider answered null, the source movie is not local, the
\* catalog is not empty and the limit positive (the popularity fallback would
\* not be empty), and the empty list was returned.
C7_Witness ==
    /\ lastSim.called
    /\ lastSim.resp.kind = "null" /\ lastSim.fetched
    /\ ~movies[lastSim.movie_id].exists
    /\ Catalog # {}
    /\ lastSim.limit > 0
    /\ lastSim.result = << >>
    /\ ~lastSim.raised

\* ------------------------------------------------------ tiered view cache
\* request.user: 0 is the AnonymousUser, n > 0 the authenticated user with id n.
Callers == {0, 1, 2}
IsAuthenticated(caller) == caller # 0

\* request.get_full_path(): the path with its query string.
Paths == {"/api/v1/movies/1/", "/api/v1/movies/1/?page=2"}

\* Response.data of the wrapped view: an empty dict (falsy) or a movie (truthy);
\* and the body of a 404.
EmptyData == [content |-> {}]
MovieData == [content |-> {"tmdb_id", "title"}]
NotFoundData == [content |-> {"detail"}]

Response(status, data) == [status_code |-> status, data |-> data]

\* What the wrapped view may answer when it is invoked.
ViewResponses == {Response(200, EmptyData), Response(200, MovieData),
                  Response(404, NotFoundData)}

\* Python truthiness of a cached payload.
DataTruthy(d) == d.content # {}

\* The decorators: cache_page_on_auth of apps/movies/views.py ("views") and of
\* apps/movies/utils/cache.py ("utils"), with (anon_timeout, auth_timeout) as
\* MovieViewSet.retrieve passes them (60 * 15, 60 * 5), (60 * 15) alone, and a
\* short anon_timeout alone.
Impls == {"views", "utils"}

TimeoutArgs == {<<60 * 15, Some(60 * 5)>>, <<60 * 15, None>>, <<30, None>>}

Configs == {[impl |-> i, anon_timeout |-> t[1], auth_timeout |-> t[2]] :
               i \in Impls, t \in TimeoutArgs}

MaxOf(a, b) == IF a > b THEN a ELSE b

\* The auth_timeout the decorator closes over: utils/cache.py replaces a
\* missing one by max(60, anon_timeout // 3); views.py keeps None.
AuthTimeout(cfg) ==
    IF cfg.impl = "utils" /\ cfg.auth_timeout = None
    THEN Some(MaxOf(60, cfg.anon_timeout \div 3))
    ELSE cfg.auth_timeout

\* Faulty variant of TimeoutFor: the two tiers are swapped.
TimeoutForSwapped(cfg, caller) ==
    IF IsAuthenticated(caller) THEN Some(cfg.anon_timeout) ELSE AuthTimeout(cfg)

\* timeout = auth_timeout if request.user.is_authenticated else anon_timeout
TimeoutFor(cfg, caller) ==
    IF IsAuthenticated(caller) THEN AuthTimeout(cfg) ELSE Some(cfg.anon_timeout)

\* The cache key: views.py writes the user part as user_<id>, utils/cache.py
\* as <id>; both write anon for an anonymous caller.
UserKey(impl, caller) ==
    IF ~IsAuthenticated(caller) THEN "anon"
    ELSE IF impl = "views" THEN "user_" \o ToString(caller)
    ELSE ToString(caller)

\* Faulty variant of CacheKey: the caller is left out of the key.
CacheKeyNoUser(impl, caller, path) == "view_cache:" \o path

CacheKey(impl, caller, path) == "view_cache:" \o UserKey(impl, caller) \o ":" \o path

\* cache.get(key): the entry, or NoEntry (Python None) when the key is absent or
\* its entry has expired.
NoEntry == [present |-> FALSE, data |-> EmptyData, ttl |-> None]

CacheGet(cache, key) == IF key \in DOMAIN cache THEN cache[key] ELSE NoEntry

\* cache.set(key, data, timeout): a timeout of None never expires.
CacheSet(cache, key, data, timeout) ==
    [k \in DOMAIN cache \cup {key} |->
        IF k = key THEN [present |-> TRUE, data |-> data, ttl |-> timeout] ELSE cache[k]]

\* Whether the decorator takes the cached value: views.py tests its truth
\* (`if cached_response := cache.get(cache_key)`), utils/cache.py tests
\* `is not None`.
IsHit(impl, entry) ==
    IF impl = "views" THEN entry.present /\ DataTruthy(entry.data) ELSE entry.present

\* Faulty variant of ShouldStore: the status test is dropped.
ShouldStoreAlways(response) == TRUE

\* Only a response with status 200 is stored.
ShouldStore(response) == response.status_code = 200

NoView == [called |-> FALSE, caller |-> 0, path |-> "", key |-> "",
           before |-> NoEntry, invoked |-> 0, computed |-> Response(0, EmptyData),
           response |-> Response(0, EmptyData)]

\* _wrapped_view: one request to the decorated view.  computed is what the
\* wrapped view answers if it is invoked.
Request ==
    \E caller \in Callers, path \in Paths, computed \in ViewResponses :
        LET key == CacheKey(config.impl, caller, path)
            entry == CacheGet(viewCache, key)
            hit == IsHit(config.impl, entry)
        IN /\ lastView' = [called |-> TRUE, caller |-> caller, path |-> path,
                           key |-> key, before |-> entry,
                           invoked |-> IF hit THEN 0 ELSE 1,
                           computed |-> computed,
                           response |-> IF hit THEN Response(200, entry.data)
                                        ELSE computed]
           /\ viewCache' = IF ~hit /\ ShouldStore(computed)
                           THEN CacheSet(viewCache, key, computed.data,
                                         TimeoutFor(config, caller))
                           ELSE viewCache
           /\ viewOwner' = IF ~hit /\ ShouldStore(computed)
                           THEN [k \in DOMAIN viewOwner \cup {key} |->
                                    IF k = key THEN <<caller, path>> ELSE viewOwner[k]]
                           ELSE viewOwner
           /\ UNCHANGED <<config, recVars, raceVars, favVars, apiVars>>

\* Time passes beyond an entry's timeout: the entry is gone.  An entry stored
\* with timeout None never expires.
Expire ==
    \E key \in DOMAIN viewCache :
        /\ viewCache[key].ttl # None
        /\ viewCache' = [k \in DOMAIN viewCache \ {key} |-> viewCache[k]]
        /\ viewOwner' = [k \in DOMAIN viewOwner \ {key} |-> viewOwner[k]]
        /\ lastView' = NoView
        /\ UNCHANGED <<config, recVars, raceVars, favVars, apiVars>>

\* ------------------------------------------------------ view cache claims
\* The entry now held under the key of the request just served.
EntryOfLastView == CacheGet(viewCache, lastView.key)

\* The request just served found no entry under its key.
ViewMiss == lastView.called /\ ~lastView.before.present

\* C8 as stated, for both decorators: whenever an unexpired entry exists under
\* the request's key, whatever its value (an empty payload included), the
\* wrapped view is not invoked and the response payload is the stored value.
C8_HitReturnsStoredValue ==
    (lastView.called /\ lastView.before.present)
        => /\ lastView.invoked = 0
           /\ lastView.response.data = lastView.before.data

\* C9 as stated: on a miss the wrapped view is invoked exactly once, its
\* response is returned, and its payload is stored under the request's key with
\* the authenticated timeout iff the caller is authenticated, otherwise with
\* the anonymous timeout.
C9_Original_MissStores ==
    ViewMiss
        => /\ lastView.invoked = 1
           /\ lastView.response = lastView.computed
           /\ EntryOfLastView.present
           /\ EntryOfLastView.data = lastView.computed.data
           /\ EntryOfLastView.ttl = (IF lastView.caller # 0 THEN AuthTimeout(config)
                                     ELSE Some(config.anon_timeout))

\* C9 amended: on a miss the wrapped view is invoked exactly once and its
\* response is returned; a response with status 200 is stored under the
\* request's key with the authenticated timeout iff the caller is
\* authenticated, otherwise with the anonymous timeout; a response with any
\* other status is not stored.
C9_MissStoresStatus200 ==
    ViewMiss
        => /\ lastView.invoked = 1
           /\ lastView.response = lastView.computed
           /\ IF lastView.computed.status_code = 200
              THEN /\ EntryOfLastView.present
                   /\ EntryOfLastView.data = lastView.computed.data
                   /\ EntryOfLastView.ttl = (IF lastView.caller # 0 THEN AuthTimeout(config)
                                             ELSE Some(config.anon_timeout))
              ELSE ~EntryOfLastView.present

\* C9 witness: an authenticated caller missed, the view answered 200 and the
\* payload is stored with the authenticated timeout, which differs from the
\* anonymous one.
C9_Witness ==
    /\ ViewMiss
    /\ lastView.caller # 0
    /\ lastView.computed.status_code = 200
    /\ EntryOfLastView.present
    /\ EntryOfLastView.ttl = AuthTimeout(config)
    /\ EntryOfLastView.ttl # Some(config.anon_timeout)

\* C10 as stated: under every configuration, an omitted auth_timeout included,
\* the expiry of an entry written for an authenticated caller is finite and
\* not longer than the expiry of an entry written for an anonymous caller.
C10_AuthExpiryFiniteAndShorter ==
    (lastView.called /\ lastView.invoked = 1 /\ lastView.caller # 0
        /\ lastView.computed.status_code = 200)
        => /\ EntryOfLastView.present
           /\ EntryOfLastView.ttl # None
           /\ EntryOfLastView.ttl[1] <= config.anon_timeout

\* The decorator MovieViewSet.retrieve ends up with: the class body defines
\* retrieve twice and the second definition, decorated with
\* cache_page_on_auth(60 * 15) of views.py, replaces the first.
RetrieveConfig == [impl |-> "views", anon_timeout |-> 60 * 15, auth_timeout |-> None]

\* C11 as stated: an entry written by the movie detail endpoint expires after
\* 15 minutes when written for an anonymous caller and after 5 minutes when
\* written for an authenticated caller, so no caller is served a payload older
\* than that.
C11_RetrieveEntriesExpire ==
    (config = RetrieveConfig /\ lastView.called /\ lastView.invoked = 1
        /\ lastView.computed.status_code = 200)
        => /\ EntryOfLastView.present
           /\ EntryOfLastView.ttl = (IF lastView.caller # 0 THEN Some(60 * 5)
                                     ELSE Some(60 * 15))

\* The entry of the key was stored by a request of this caller for this path.
StoredBy(key, caller, path) == viewOwner[key] = <<caller, path>>

\* C12: the view cache is keyed by (caller, full path).  Every entry can be
\* read only by requests of the caller that stored it for the very path,
\* query string included, it was stored for; so the payload a request is
\* served from the cache was stored by the same caller (the same user, or an
\* anonymous caller for an anonymous one) for the same full path.
C12_EntriesNotShared ==
    /\ \A key \in DOMAIN viewCache : \A caller \in Callers, path \in Paths :
          CacheKey(config.impl, caller, path) = key => StoredBy(key, caller, path)
    /\ (lastView.called /\ lastView.invoked = 0)
          => StoredBy(lastView.key, lastView.caller, lastView.path)

\* C12 witness: a user is served from the cache while the cache also holds a
\* different payload for an anonymous caller and for another user on the same
\* path, and for the same user on the path with another query string.
C12_Witness ==
    /\ lastView.called /\ lastView.invoked = 0 /\ lastView.caller = 1
    /\ lastView.response.data = MovieData
    /\ \A other \in {<<0, lastView.path>>, <<2, lastView.path>>} \cup
                    {<<1, p>> : p \in Paths \ {lastView.path}} :
          LET key == CacheKey(config.impl, other[1], other[2])
          IN key \in DOMAIN viewCache /\ viewCache[key].data = EmptyData

\* ------------------------------------------------------ concurrent misses
\* Requests served concurrently by the workers, all for one cache key: either
\* requests to the decorated view ("view") or calls of _get_cached_or_fetch
\* ("tmdb").  The cache backend performs each get and each set atomically; the
\* code takes no lock around them.
MaxProcs == 2
Procs == 1..MaxProcs

NoWrite == [written |-> FALSE, by |-> 0, view |-> EmptyData, tmdb |-> Absent]

\* No request in flight.
DoneProc ==
    [kind |-> "none", pc |-> "done", caller |-> 0, path |-> "", movie_id |-> 0,
     hit |-> FALSE, raised |-> FALSE,
     computed |-> Response(0, EmptyData), response |-> Response(0, EmptyData),
     fetched |-> Absent, returned |-> Absent]

\* A request that has not yet run its first statement.
StartProc(kind, caller, path, movie_id) ==
    [kind |-> kind, pc |-> "get", caller |-> caller, path |-> path,
     movie_id |-> movie_id, hit |-> FALSE, raised |-> FALSE,
     computed |-> Response(0, EmptyData), response |-> Response(0, EmptyData),
     fetched |-> Absent, returned |-> Absent]

ProcKey(p) == CacheKey(config.impl, procs[p].caller, procs[p].path)

\* cached = cache.get(cache_key) and the test of it (views.py:27,
\* utils/cache.py:35-37): a hit returns Response(cached).
ViewGet(p) ==
    /\ procs[p].kind = "view" /\ procs[p].pc = "get"
    /\ LET entry == CacheGet(viewCache, ProcKey(p)) IN
          procs' = [procs EXCEPT ![p] =
                      IF IsHit(config.impl, entry)
                      THEN [@ EXCEPT !.pc = "done", !.hit = TRUE,
                                     !.response = Response(200, entry.data)]
                      ELSE [@ EXCEPT !.pc = "compute"]]
    /\ UNCHANGED <<recVars, viewVars, lastWrite, favVars, apiVars>>

\* response = view_func(...) (views.py:30, utils/cache.py:40-43)
ViewCompute(p) ==
    /\ procs[p].kind = "view" /\ procs[p].pc = "compute"
    /\ \E computed \in ViewResponses :
          procs' = [procs EXCEPT ![p] = [@ EXCEPT !.pc = "set", !.computed = computed]]
    /\ UNCHANGED <<recVars, viewVars, lastWrite, favVars, apiVars>>

\* Faulty variant of ViewSet: the payload is stored only if the key is still
\* absent (cache.add) and the stored value is what the request returns.
ViewSetFirstWriteWins(p) ==
    /\ procs[p].kind = "view" /\ procs[p].pc = "set"
    /\ LET computed == procs[p].computed
           key == ProcKey(p)
           entry == CacheGet(viewCache, key)
       IN /\ procs' = [procs EXCEPT ![p] =
                         [@ EXCEPT !.pc = "done",
                                   !.response = IF entry.present
                                                THEN Response(200, entry.data)
                                                ELSE computed]]
          /\ IF ShouldStore(computed) /\ ~entry.present
             THEN /\ viewCache' = CacheSet(viewCache, key, computed.data,
                                           TimeoutFor(config, procs[p].caller))
                  /\ viewOwner' = [k \in DOMAIN viewOwner \cup {key} |->
                                     IF k = key THEN <<procs[p].caller, procs[p].path>>
                                     ELSE viewOwner[k]]
                  /\ lastWrite' = [NoWrite EXCEPT !.written = TRUE, !.by = p,
                                                  !.view = computed.data]
             ELSE UNCHANGED <<viewCache, viewOwner, lastWrite>>
    /\ UNCHANGED <<recVars, config, lastView, favVars, apiVars>>

\* The conditional cache.set and the return (views.py:32-36,
\* utils/cache.py:46-50).
ViewSet(p) ==
    /\ procs[p].kind = "view" /\ procs[p].pc = "set"
    /\ LET computed == procs[p].computed
           key == ProcKey(p)
       IN /\ procs' = [procs EXCEPT ![p] = [@ EXCEPT !.pc = "done", !.response = computed]]
          /\ IF ShouldStore(computed)
             THEN /\ viewCache' = CacheSet(viewCache, key, computed.data,
                                           TimeoutFor(config, procs[p].caller))
                  /\ viewOwner' = [k \in DOMAIN viewOwner \cup {key} |->
                                     IF k = key THEN <<procs[p].caller, procs[p].path>>
                                     ELSE viewOwner[k]]
                  /\ lastWrite' = [NoWrite EXCEPT !.written = TRUE, !.by = p,
                                                  !.view = computed.data]
             ELSE UNCHANGED <<viewCache, viewOwner, lastWrite>>
    /\ UNCHANGED <<recVars, config, lastView, favVars, apiVars>>

\* cached_data = cache.get(cache_key); if cached_data: return cached_data
\* (tmdb_service.py:76-78)
TmdbGet(p) ==
    /\ procs[p].kind = "tmdb" /\ procs[p].pc = "get"
    /\ LET cached == tmdbCache[procs[p].movie_id] IN
          procs' = [procs EXCEPT ![p] =
                      IF Truthy(cached)
                      THEN [@ EXCEPT !.pc = "done", !.hit = TRUE, !.returned = cached]
                      ELSE [@ EXCEPT !.pc = "compute"]]
    /\ UNCHANGED <<recVars, viewVars, lastWrite, favVars, apiVars>>

\* data = fetch_func() (tmdb_service.py:80): the request may raise, which ends
\* the call.
TmdbFetch(p) ==
    /\ procs[p].kind = "tmdb" /\ procs[p].pc = "compute"
    /\ \E resp \in ProviderResponses :
          LET r == MakeRequest(resp) IN
          procs' = [procs EXCEPT ![p] =
                      IF r.raised THEN [@ EXCEPT !.pc = "done", !.raised = TRUE]
                      ELSE [@ EXCEPT !.pc = "set", !.fetched = r.data]]
    /\ UNCHANGED <<recVars, viewVars, lastWrite, favVars, apiVars>>

\* if data: cache.set(cache_key, data, timeout); return data
\* (tmdb_service.py:81-83)
TmdbSet(p) ==
    /\ procs[p].kind = "tmdb" /\ procs[p].pc = "set"
    /\ LET data == procs[p].fetched IN
          /\ procs' = [procs EXCEPT ![p] = [@ EXCEPT !.pc = "done", !.returned = data]]
          /\ IF Truthy(data)
             THEN /\ tmdbCache' = [tmdbCache EXCEPT ![procs[p].movie_id] = data]
                  /\ lastWrite' = [NoWrite EXCEPT !.written = TRUE, !.by = p, !.tmdb = data]
             ELSE UNCHANGED <<tmdbCache, lastWrite>>
    /\ UNCHANGED <<movies, favorites, lastRec, lastSim, viewVars, favVars, apiVars>>

\* The next statement of request p.
ProcStep(p) ==
    \/ ViewGet(p) \/ ViewCompute(p) \/ ViewSet(p)
    \/ TmdbGet(p) \/ TmdbFetch(p) \/ TmdbSet(p)

\* --------------------------------------------------- concurrent miss claims
\* Request p found no usable entry, ran its own compute and has returned.
MissedAndDone(p) == procs[p].pc = "done" /\ ~procs[p].hit

\* The value now held under the key the requests share.
SharedViewEntry == CacheGet(viewCache, ProcKey(1))
SharedTmdbEntry == tmdbCache[procs[1].movie_id]

\* C13: concurrent requests for one key, under every interleaving of their
\* get / compute / set steps: no request ever waits for another (its next
\* step is always enabled, so each completes); a request that missed returns
\* the value of its own compute; the entry held is the value of the last
\* write, and is a value computed by the request that wrote it; without a
\* write nothing is held.
C13_ConcurrentMissesLastWriteWins ==
    /\ \A p \in Procs : procs[p].pc # "done" => ENABLED ProcStep(p)
    /\ \A p \in Procs : (MissedAndDone(p) /\ ~procs[p].raised) =>
          /\ procs[p].response = procs[p].computed
          /\ procs[p].returned = procs[p].fetched
    /\ IF lastWrite.written
       THEN /\ MissedAndDone(lastWrite.by)
            /\ procs[1].kind = "view" =>
                  /\ SharedViewEntry.present
                  /\ SharedViewEntry.data = lastWrite.view
                  /\ lastWrite.view = procs[lastWrite.by].computed.data
            /\ procs[1].kind = "tmdb" =>
                  /\ SharedTmdbEntry = lastWrite.tmdb
                  /\ lastWrite.tmdb = procs[lastWrite.by].fetched
       ELSE viewCache = << >> /\ \A k \in SimilarIds : tmdbCache[k] = Absent

\* C13 witness: two requests to the view both missed, computed different
\* payloads and both wrote; both are done, each returned its own payload, and
\* the entry is the payload of the second writer.
C13_Witness ==
    /\ \A p \in {1, 2} : procs[p].kind = "view" /\ MissedAndDone(p)
                          /\ procs[p].computed.status_code = 200
                          /\ procs[p].response = procs[p].computed
    /\ procs[1].computed # procs[2].computed
    /\ lastWrite.written /\ lastWrite.by = 2
    /\ SharedViewEntry.data = procs[2].computed.data

\* -------------------------------------------------------------- favorites
\* The notes of a favorite; "" also stands for notes that were not given.
Notes == {"", "seen"}

\* The primary keys the FavoriteMovie table hands out; a key is never reused.
MaxFavId == 2
FavIds == 1..MaxFavId

\* The users and the movies the favorites requests come from and name,
\* existing or not.
FavUsers == {1, 2}
FavMovies == {1, 2}

\* A Movie row of the favorites specifications: only its existence matters.
\* A Movie is named here by its tmdb_id; its primary key is as unique.
AMovie == [exists |-> TRUE, popularity |-> 0, vote_average |-> 0, genre_ids |-> {}]

FavRow(id, user, movie, notes) == [id |-> id, user |-> user, movie |-> movie, notes |-> notes]

\* The (user, movie) pairs of a FavoriteMovie table.
PairsOf(rows) == {<<r.user, r.movie>> : r \in rows}

\* Faulty variant of RowsOf: the user filter is dropped.
RowsOfAnyUser(rows, user, movie) == {r \in rows : r.movie = movie}

\* FavoriteMovie.objects.filter(user=user, movie=movie)
RowsOf(rows, user, movie) == {r \in rows : r.user = user /\ r.movie = movie}

\* Faulty variant of GetQueryset: every user's rows.
GetQuerysetAll(rows, user) == rows

\* FavoriteMovieViewSet.get_queryset: the requesting user's rows.
GetQueryset(rows, user) == {r \in rows : r.user = user}

\* Faulty variant of UniqueViolation: the table has no unique_together.
UniqueViolationNever(rows, id, user, movie) == FALSE

\* unique_together = [['user', 'movie']]: writing (user, movie) into the row
\* with this id would leave two rows with the same pair.
UniqueViolation(rows, id, user, movie) ==
    \E r \in rows : r.id # id /\ r.user = user /\ r.movie = movie

\* The foreign keys of FavoriteMovie: the row would reference a user or a
\* movie that does not exist.
ForeignKeyViolation(user, movie) ==
    ~(user \in accounts /\ movies[movie].exists)

\* The database raises IntegrityError for the write.
IntegrityError(rows, id, user, movie) ==
    UniqueViolation(rows, id, user, movie) \/ ForeignKeyViolation(user, movie)

\* The outcome of a request: the response's status and detail message, or the
\* exception that left the view (answered with a 500 by the server).
FavResp(status, detail) == [status |-> status, detail |-> detail, raised |-> FALSE]
Raised == [status |-> 500, detail |-> "", raised |-> TRUE]
NotFound == FavResp(404, "Not found.")

NoFav == [op |-> "none", user |-> 0, target |-> 0, movie |-> 0, status |-> 0,
          detail |-> "", raised |-> FALSE, before |-> {}, listed |-> {},
          after_add |-> FALSE]

\* The record of the request being served; after_add (history) tells that it is
\* a remove_favorite directly following the successful favorite of the same
\* user for the same movie.
Served(op, user, target, movie, resp, listed) ==
    [op |-> op, user |-> user, target |-> target, movie |-> movie,
     status |-> resp.status, detail |-> resp.detail, raised |-> resp.raised,
     before |-> favRows, listed |-> listed,
     after_add |-> op = "remove_favorite" /\ lastFav.op = "favorite"
                   /\ lastFav.status = 201 /\ lastFav.user = user
                   /\ lastFav.movie = movie]

\* No favorites request in flight and no favorites data (the other
\* specifications).
FavIdle ==
    /\ accounts = {}
    /\ favRows = {}
    /\ nextId = 1
    /\ lastFav = NoFav
    /\ workers = << >>

\* What a favorites request leaves alone.
favFrame == <<lastRec, tmdbCache, lastSim, viewVars, raceVars, apiVars>>

\* The request ends: the table, the key counter and the record of the request.
Commit(rows, id, served) ==
    /\ favRows' = rows
    /\ favorites' = PairsOf(rows)
    /\ nextId' = id
    /\ lastFav' = served

\* Faulty variant of MovieExists: the lookup never fails.
MovieExistsAlways(movie) == TRUE

\* self.get_object() of MovieViewSet and get_object_or_404(Movie, pk=...).
MovieExists(movie) == movies[movie].exists

\* POST movies/{tmdb_id}/favorite/ (MovieViewSet.favorite), served without
\* another request in between.
Favorite ==
    \E user \in accounts, movie \in FavMovies :
        /\ IF ~MovieExists(movie)
           THEN Commit(favRows, nextId, Served("favorite", user, 0, movie, NotFound, {}))
           ELSE IF RowsOf(favRows, user, movie) # {}
           THEN Commit(favRows, nextId,
                       Served("favorite", user, 0, movie,
                              FavResp(400, "Movie is already in your favorites."), {}))
           ELSE /\ nextId \in FavIds
                /\ \E notes \in Notes :
                      Commit(favRows \cup {FavRow(nextId, user, movie, notes)}, nextId + 1,
                             Served("favorite", user, nextId, movie, FavResp(201, ""), {}))
        /\ UNCHANGED <<movies, accounts, workers, favFrame>>

\* Faulty variant of RemoveFavorite: 204 is answered but the row is kept.
RemoveFavoriteKeepsRow ==
    \E user \in accounts, movie \in FavMovies :
        /\ IF ~MovieExists(movie)
           THEN Commit(favRows, nextId, Served("remove_favorite", user, 0, movie, NotFound, {}))
           ELSE IF RowsOf(favRows, user, movie) = {}
           THEN Commit(favRows, nextId,
                       Served("remove_favorite", user, 0, movie,
                              FavResp(404, "Movie was not in your favorites."), {}))
           ELSE Commit(favRows, nextId,
                       Served("remove_favorite", user, 0, movie, FavResp(204, ""), {}))
        /\ UNCHANGED <<movies, accounts, workers, favFrame>>

\* DELETE movies/{tmdb_id}/favorite/ (MovieViewSet.remove_favorite)
RemoveFavorite ==
    \E user \in accounts, movie \in FavMovies :
        /\ IF ~MovieExists(movie)
           THEN Commit(favRows, nextId, Served("remove_favorite", user, 0, movie, NotFound, {}))
           ELSE LET deleted == RowsOf(favRows, user, movie) IN
                IF deleted = {}
                THEN Commit(favRows, nextId,
                            Served("remove_favorite", user, 0, movie,
                                   FavResp(404, "Movie was not in your favorites."), {}))
                ELSE Commit(favRows \ deleted, nextId,
                            Served("remove_favorite", user, 0, movie, FavResp(204, ""), {}))
        /\ UNCHANGED <<movies, accounts, workers, favFrame>>

\* POST favorites/ (CreateModelMixin.create and
\* FavoriteMovieViewSet.perform_create), served without another request in
\* between.  The serializer's user and movie fields are read-only, so it
\* carries no uniqueness validator: a duplicate reaches the INSERT, and the
\* IntegrityError of the database leaves the view.
Create ==
    \E user \in accounts, movie \in FavMovies :
        /\ IF ~MovieExists(movie)
           THEN Commit(favRows, nextId, Served("create", user, 0, movie, NotFound, {}))
           ELSE IF IntegrityError(favRows, nextId, user, movie)
           THEN Commit(favRows, nextId, Served("create", user, 0, movie, Raised, {}))
           ELSE /\ nextId \in FavIds
                /\ \E notes \in Notes :
                      Commit(favRows \cup {FavRow(nextId, user, movie, notes)}, nextId + 1,
                             Served("create", user, nextId, movie, FavResp(201, ""), {}))
        /\ UNCHANGED <<movies, accounts, workers, favFrame>>

\* GET favorites/ (FavoriteMovieViewSet.list): the ids listed.
List ==
    \E user \in accounts :
        /\ Commit(favRows, nextId,
                  Served("list", user, 0, 0, FavResp(200, ""),
                         {r.id : r \in GetQueryset(favRows, user)}))
        /\ UNCHANGED <<movies, accounts, workers, favFrame>>

\* GET favorites/{id}/ (RetrieveModelMixin.retrieve over get_queryset)
Retrieve ==
    \E user \in accounts, id \in FavIds :
        /\ LET found == {r \in GetQueryset(favRows, user) : r.id = id} IN
           Commit(favRows, nextId,
                  Served("retrieve", user, id, 0,
                         IF found = {} THEN NotFound ELSE FavResp(200, ""),
                         {r.id : r \in found}))
        /\ UNCHANGED <<movies, accounts, workers, favFrame>>

\* PUT / PATCH favorites/{id}/ (UpdateModelMixin.update): movie_id and notes
\* are the writable fields (a PUT gives movie_id, a PATCH may).  The
\* serializer sets the given fields on the row and saves it.
Update ==
    \E user \in accounts, id \in FavIds :
        /\ LET found == {r \in GetQueryset(favRows, user) : r.id = id} IN
           IF found = {}
           THEN Commit(favRows, nextId, Served("update", user, id, 0, NotFound, {}))
           ELSE \E movie_id \in {None} \cup {Some(m) : m \in FavMovies},
                   notes \in {None} \cup {Some(n) : n \in Notes} :
                LET old == CHOOSE r \in found : TRUE
                    movie == IF movie_id = None THEN old.movie ELSE movie_id[1]
                    new == FavRow(id, user, movie,
                                  IF notes = None THEN old.notes ELSE notes[1])
                IN IF IntegrityError(favRows, id, user, movie)
                   THEN Commit(favRows, nextId, Served("update", user, id, movie, Raised, {}))
                   ELSE Commit((favRows \ {old}) \cup {new}, nextId,
                               Served("update", user, id, movie, FavResp(200, ""), {}))
        /\ UNCHANGED <<movies, accounts, workers, favFrame>>

\* DELETE favorites/{id}/ (DestroyModelMixin.destroy over get_queryset)
Destroy ==
    \E user \in accounts, id \in FavIds :
        /\ LET found == {r \in GetQueryset(favRows, user) : r.id = id} IN
           IF found = {}
           THEN Commit(favRows, nextId, Served("destroy", user, id, 0, NotFound, {}))
           ELSE Commit(favRows \ found, nextId,
                       Served("destroy", user, id, 0, FavResp(204, ""), {}))
        /\ UNCHANGED <<movies, accounts, workers, favFrame>>

\* Faulty variant of Cascade: the referencing rows are kept.
CascadeNone(rows, users, gone) == rows

\* on_delete=models.CASCADE of FavoriteMovie.user and FavoriteMovie.movie: the
\* rows left when the users and the movies named are deleted.
Cascade(rows, users, gone) == {r \in rows : r.user \notin users /\ r.movie \notin gone}

\* A Movie row is deleted (admin site, ORM): its favorites go with it.
DeleteMovie ==
    \E movie \in FavMovies :
        /\ movies[movie].exists
        /\ movies' = [movies EXCEPT ![movie] = NoMovie]
        /\ Commit(Cascade(favRows, {}, {movie}), nextId,
                  Served("delete_movie", 0, 0, movie, FavResp(0, ""), {}))
        /\ UNCHANGED <<accounts, workers, favFrame>>

\* A User row is deleted: its favorites go with it.
DeleteUser ==
    \E user \in accounts :
        /\ accounts' = accounts \ {user}
        /\ Commit(Cascade(favRows, {user}, {}), nextId,
                  Served("delete_user", user, 0, 0, FavResp(0, ""), {}))
        /\ UNCHANGED <<movies, workers, favFrame>>

\* ------------------------------------------- concurrent favorite creation
\* The favorite-creating requests served concurrently, statement by statement:
\* POST movies/{tmdb_id}/favorite/ (get_object, then get_or_create: a get, an
\* INSERT and, when the INSERT raises IntegrityError, a second get) and POST
\* favorites/ (get_object_or_404, then the INSERT of serializer.save).  The
\* database performs each statement atomically.
Workers == {1, 2}

StartWorker == [op |-> "none", pc |-> "start", user |-> 0, movie |-> 0,
                status |-> 0, raised |-> FALSE, conflict |-> FALSE]

\* The request of worker w ends with this outcome; its locals are gone.
Finish(w, resp) ==
    workers' = [workers EXCEPT ![w] =
                  [@ EXCEPT !.pc = "done", !.user = 0, !.movie = 0,
                            !.status = resp.status, !.raised = resp.raised]]

\* movie = self.get_object() (views.py:65) and
\* movie = get_object_or_404(Movie, pk=movie_id) (views.py:196)
WorkerLookup(w) ==
    /\ workers[w].pc = "start"
    /\ \E op \in {"favorite", "create"}, user \in accounts, movie \in FavMovies :
          workers' = [workers EXCEPT ![w] =
                        IF ~MovieExists(movie)
                        THEN [@ EXCEPT !.op = op, !.pc = "done",
                                       !.status = NotFound.status]
                        ELSE [@ EXCEPT !.op = op, !.user = user, !.movie = movie,
                                       !.pc = IF op = "favorite" THEN "get" ELSE "insert"]]
    /\ UNCHANGED <<movies, favorites, accounts, favRows, nextId, lastFav, favFrame>>

\* The first get of get_or_create (views.py:66): a row found answers 400.
WorkerGet(w) ==
    /\ workers[w].pc = "get"
    /\ IF RowsOf(favRows, workers[w].user, workers[w].movie) # {}
       THEN Finish(w, FavResp(400, "Movie is already in your favorites."))
       ELSE workers' = [workers EXCEPT ![w] = [@ EXCEPT !.pc = "insert"]]
    /\ UNCHANGED <<movies, favorites, accounts, favRows, nextId, lastFav, favFrame>>

\* The INSERT of get_or_create (views.py:66-70) and of serializer.save
\* (views.py:197).  An IntegrityError sends get_or_create to its second get
\* and leaves perform_create.
WorkerInsert(w) ==
    /\ workers[w].pc = "insert"
    /\ IF IntegrityError(favRows, nextId, workers[w].user, workers[w].movie)
       THEN /\ IF workers[w].op = "favorite"
               THEN workers' = [workers EXCEPT ![w] =
                                  [@ EXCEPT !.pc = "reget", !.conflict = TRUE]]
               ELSE workers' = [workers EXCEPT ![w] =
                                  [@ EXCEPT !.pc = "done", !.conflict = TRUE,
                                            !.user = 0, !.movie = 0,
                                            !.status = Raised.status, !.raised = TRUE]]
            /\ UNCHANGED <<favorites, favRows, nextId>>
       ELSE /\ nextId \in FavIds
            /\ \E notes \in Notes :
                  favRows' = favRows \cup
                     {FavRow(nextId, workers[w].user, workers[w].movie, notes)}
            /\ favorites' = PairsOf(favRows')
            /\ nextId' = nextId + 1
            /\ Finish(w, FavResp(201, ""))
    /\ UNCHANGED <<movies, accounts, lastFav, favFrame>>

\* The second get of get_or_create, after the IntegrityError: a row found
\* answers 400; with none the IntegrityError is re-raised.
WorkerReget(w) ==
    /\ workers[w].pc = "reget"
    /\ IF RowsOf(favRows, workers[w].user, workers[w].movie) # {}
       THEN Finish(w, FavResp(400, "Movie is already in your favorites."))
       ELSE Finish(w, Raised)
    /\ UNCHANGED <<movies, favorites, accounts, favRows, nextId, lastFav, favFrame>>

\* The next statement of the request of worker w.
WorkerStep(w) == WorkerLookup(w) \/ WorkerGet(w) \/ WorkerInsert(w) \/ WorkerReget(w)

\* -------------------------------------------------------- favorites claims
\* C14: in every reachable state, under every interleaving of the statements
\* of concurrent favorite-creating requests with updates, removals and
\* cascades, at most one Favorite row exists for each (user, movie) pair.
C14_AtMostOneFavoritePerPair ==
    \A r1 \in favRows, r2 \in favRows :
        (r1.user = r2.user /\ r1.movie = r2.movie) => r1 = r2

\* C14 witness: two concurrent favorite requests both passed the first get of
\* get_or_create; one inserted the row (201), the INSERT of the other raised
\* IntegrityError, its second get found the row and it answered 400; the
\* table holds that one row.
C14_Witness ==
    /\ \A w \in Workers : workers[w].op = "favorite" /\ workers[w].pc = "done"
    /\ \E w \in Workers : workers[w].status = 201
    /\ \E w \in Workers : workers[w].status = 400 /\ workers[w].conflict
    /\ Cardinality(favRows) = 1

\* The user has a Favorite of the movie in this table.
HasFavorite(rows, user, movie) == \E r \in rows : r.user = user /\ r.movie = movie

\* The request just served was a favorite-creating one.
CreationServed == lastFav.op \in {"favorite", "create"}

\* C15 as stated: creating a favorite for a pair already favorited, through
\* either creation endpoint, is answered with a 4xx and a message, no
\* exception leaves the view, and the table is unchanged.
C15_DuplicateAnswers4xx ==
    (CreationServed /\ HasFavorite(lastFav.before, lastFav.user, lastFav.movie))
        => /\ ~lastFav.raised
           /\ lastFav.status \in 400..499
           /\ lastFav.detail # ""
           /\ favRows = lastFav.before

\* C16: remove_favorite by a user who has no Favorite of the movie is answered
\* 404 with a message and changes no row, other users' favorites of the movie
\* included.
C16_RemoveMissingIs404 ==
    (lastFav.op = "remove_favorite"
        /\ ~HasFavorite(lastFav.before, lastFav.user, lastFav.movie))
        => /\ ~lastFav.raised
           /\ lastFav.status = 404
           /\ lastFav.detail # ""
           /\ favRows = lastFav.before

\* C16 witness: the movie exists and is a favorite of another user but not of
\* the requesting one; 404 was answered with the view's message and the other
\* user's row is still there.
C16_Witness ==
    /\ lastFav.op = "remove_favorite"
    /\ movies[lastFav.movie].exists
    /\ ~HasFavorite(lastFav.before, lastFav.user, lastFav.movie)
    /\ \E r \in favRows : r.movie = lastFav.movie /\ r.user # lastFav.user
    /\ lastFav.status = 404
    /\ lastFav.detail = "Movie was not in your favorites."

\* C17: in every reachable state each Favorite row references an existing user
\* and an existing movie; deleting either deletes the rows that reference it.
C17_FavoritesReferenceExistingRows ==
    /\ \A r \in favRows : r.user \in accounts /\ movies[r.movie].exists
    /\ lastFav.op = "delete_movie" => \A r \in favRows : r.movie # lastFav.movie
    /\ lastFav.op = "delete_user" => \A r \in favRows : r.user # lastFav.user

\* C17 witness: a movie with a favorite was deleted, the favorite went with it
\* and a favorite of another movie stayed.
C17_Witness ==
    /\ lastFav.op = "delete_movie"
    /\ \E r \in lastFav.before : r.movie = lastFav.movie
    /\ \A r \in favRows : r.movie # lastFav.movie
    /\ favRows # {}

\* C18: a favorite-creating request, through either endpoint, that names a
\* movie with no local row is answered 404 and creates no Favorite and no
\* Movie row.
C18_NoFavoriteForMissingMovie ==
    [][((lastFav'.op \in {"favorite", "create"}) /\ ~movies[lastFav'.movie].exists)
          => /\ lastFav'.status = 404
             /\ ~lastFav'.raised
             /\ favRows' = favRows
             /\ movies' = movies]_vars

\* C18 witness: POST favorites/ named a movie that has no row while the table
\* holds favorites; 404 was answered and the movie still has no row.
C18_Witness ==
    /\ lastFav.op = "create"
    /\ ~movies[lastFav.movie].exists
    /\ lastFav.status = 404
    /\ favRows # {}
    /\ favRows = lastFav.before

\* The step is the favorite action of a user for an existing movie that is
\* not yet a favorite of theirs.
AddStep ==
    /\ lastFav'.op = "favorite"
    /\ movies[lastFav'.movie].exists
    /\ ~HasFavorite(favRows, lastFav'.user, lastFav'.movie)

\* The step is a remove_favorite directly following the successful favorite
\* action of the same user for the same movie.
RemoveAfterAddStep ==
    /\ lastFav.op = "favorite" /\ lastFav.status = 201
    /\ lastFav'.op = "remove_favorite"
    /\ lastFav'.user = lastFav.user /\ lastFav'.movie = lastFav.movie

\* The rows of a table other than those of (user, movie).
OtherRows(rows, user, movie) == {r \in rows : ~(r.user = user /\ r.movie = movie)}

\* C19: the favorite action for an existing movie not yet favorited answers
\* 201 and leaves exactly one row for the pair; the remove by the same user
\* that follows answers 204, leaves none and restores the table to what it was
\* before the add; neither step changes a row of another pair.
C19_AddThenRemoveRestores ==
    [][/\ AddStep =>
             /\ lastFav'.status = 201
             /\ Cardinality(favRows' \ OtherRows(favRows', lastFav'.user, lastFav'.movie)) = 1
             /\ OtherRows(favRows', lastFav'.user, lastFav'.movie) = favRows
       /\ RemoveAfterAddStep =>
             /\ lastFav'.status = 204
             /\ ~HasFavorite(favRows', lastFav'.user, lastFav'.movie)
             /\ favRows' = lastFav.before
             /\ OtherRows(favRows', lastFav'.user, lastFav'.movie)
                   = OtherRows(favRows, lastFav'.user, lastFav'.movie)]_vars

\* C19 witness: a remove_favorite directly after the successful add of the
\* same pair answered 204, while another user keeps a favorite of the same
\* movie.
C19_Witness ==
    /\ lastFav.op = "remove_favorite" /\ lastFav.after_add
    /\ lastFav.status = 204
    /\ ~HasFavorite(favRows, lastFav.user, lastFav.movie)
    /\ \E r \in favRows : r.movie = lastFav.movie /\ r.user # lastFav.user

\* The request addressed the id of a favorite of another user.
AddressedForeignRow ==
    /\ lastFav.op \in {"retrieve", "update", "destroy"}
    /\ \E r \in lastFav.before : r.id = lastFav.target /\ r.user # lastFav.user

\* C20: the list of a user holds exactly their own favorites, and a retrieve,
\* update or delete addressed to the id of another user's favorite is answered
\* 404 and leaves the table unchanged.
C20_OwnFavoritesOnly ==
    /\ lastFav.op = "list" =>
          lastFav.listed = {r.id : r \in {x \in favRows : x.user = lastFav.user}}
    /\ AddressedForeignRow =>
          /\ lastFav.status = 404
          /\ ~lastFav.raised
          /\ lastFav.listed = {}
          /\ favRows = lastFav.before

\* C20 witness: a user who has a favorite of their own sent an update to the
\* id of another user's favorite and was answered 404.
C20_Witness ==
    /\ AddressedForeignRow
    /\ lastFav.op = "update"
    /\ lastFav.status = 404
    /\ \E r \in favRows : r.user = lastFav.user

\* ------------------------------------------------- user cache invalidation
\* The cache backend in use: django_redis with KEY_PREFIX
\* 'movie_recommendation' (the production settings), or a backend without the
\* django_redis package, whose import fails.
Backends == {"django_redis", "no_django_redis"}

\* The key under which django_redis stores a cache key: prefix, version, key.
RedisKey(key) == "movie_recommendation:1:" \o key

\* The glob patterns of invalidate_user_cache, without their final '*'.
Patterns(user_id) ==
    {"movies:user:" \o ToString(user_id) \o ":",
     "movies:recommendations:" \o ToString(user_id) \o ":",
     "movies:favorites:" \o ToString(user_id) \o ":"}

\* redis KEYS with a pattern that ends in '*': the key starts with the rest.
StartsWith(key, prefix) ==
    Len(key) >= Len(prefix) /\ SubSeq(key, 1, Len(prefix)) = prefix

\* The cache keys that redis_conn.keys finds for one of the patterns.
MatchedKeys(cache, user_id) ==
    {k \in DOMAIN cache : \E p \in Patterns(user_id) : StartsWith(RedisKey(k), p)}

NoInv == [called |-> FALSE, user_id |-> 0, backend |-> "django_redis"]

\* invalidate_user_cache(user_id): with django_redis the keys matching the
\* three patterns are deleted; without it the ImportError is passed over.
InvalidateUserCache ==
    \E user_id \in Callers \ {0}, backend \in Backends :
        LET gone == IF backend = "django_redis" THEN MatchedKeys(viewCache, user_id)
                    ELSE {}
        IN /\ viewCache' = [k \in DOMAIN viewCache \ gone |-> viewCache[k]]
           /\ viewOwner' = [k \in DOMAIN viewOwner \ gone |-> viewOwner[k]]
           /\ lastInv' = [called |-> TRUE, user_id |-> user_id, backend |-> backend]
           /\ UNCHANGED <<config, lastView, recVars, raceVars, favVars, lastList, userRows,
                          tokens, lastAuth, lastFetch>>

\* C29 as stated: after invalidate_user_cache(user_id) no entry written for a
\* request of that user is left in the cache, the per-user entries of
\* cache_page_on_auth included, and the entries written for other users and for
\* anonymous callers are as they were.
C29_InvalidateRemovesUsersEntries ==
    [][(lastInv'.called /\ lastInv' # lastInv)
          => /\ \A k \in DOMAIN viewCache' : viewOwner'[k][1] # lastInv'.user_id
             /\ \A k \in DOMAIN viewCache :
                   viewOwner[k][1] # lastInv'.user_id
                       => k \in DOMAIN viewCache' /\ viewCache'[k] = viewCache[k]]_vars

\* ------------------------------------------------- provider cache calls
\* An empty JSON object: falsy in Python, like None.
EmptyBody == Payload("empty", FALSE, << >>)

\* What the fetch function may do: raise, or return null, {} or a body (one
\* with a single result among them).
FetchResults ==
    ProviderResponses \cup {EmptyBody, Payload("dict", TRUE, SubSeq(ProviderItems, 1, 1))}

NoFetch == [called |-> FALSE, key |-> 0, resp |-> Absent, before |-> << >>,
            calls |-> 0, raised |-> FALSE, data |-> Absent]

\* get_movie_recommendations(movie_id): _get_cached_or_fetch under the key
\* tmdb:recommendations:<movie_id>:page:1 with _make_request as the fetch
\* function; resp is what the provider does if it is asked.
GetMovieRecommendations ==
    \E movie_id \in SimilarIds, resp \in FetchResults :
        LET got == GetCachedOrFetch(tmdbCache, movie_id, resp) IN
        /\ tmdbCache' = got.cache
        /\ lastFetch' = [called |-> TRUE, key |-> movie_id,
                         resp |-> IF got.fetched THEN resp ELSE Absent,
                         before |-> tmdbCache,
                         calls |-> IF got.fetched THEN 1 ELSE 0,
                         raised |-> got.raised, data |-> got.data]
        /\ UNCHANGED <<movies, favorites, lastRec, lastSim, viewVars, raceVars, favVars,
                       lastList, userRows, tokens, lastAuth, lastInv>>

\* The entry's timeout (600 s by default) passes: the entry is gone.
TmdbExpire ==
    \E k \in SimilarIds :
        /\ tmdbCache[k] # Absent
        /\ tmdbCache' = [tmdbCache EXCEPT ![k] = Absent]
        /\ lastFetch' = NoFetch
        /\ UNCHANGED <<movies, favorites, lastRec, lastSim, viewVars, raceVars, favVars,
                       lastList, userRows, tokens, lastAuth, lastInv>>

\* The call just made found a value under its key.
FetchHit == lastFetch.called /\ lastFetch.before[lastFetch.key] # Absent

\* The call just made found nothing under its key.
FetchMiss == lastFetch.called /\ lastFetch.before[lastFetch.key] = Absent

\* C27: on a hit the fetch function is not called and the cached value is
\* returned; on a miss it is called exactly once; when it raises, the exception
\* reaches the caller and the cache is unchanged; a null or empty result is
\* returned and not stored; every stored value is a non-empty body that a
\* successful request returned.
C27_ProviderCacheStoresOnlyFetchedBodies ==
    /\ FetchHit => /\ lastFetch.calls = 0
                   /\ ~lastFetch.raised
                   /\ lastFetch.data = lastFetch.before[lastFetch.key]
                   /\ tmdbCache = lastFetch.before
    /\ FetchMiss => lastFetch.calls = 1
    /\ (FetchMiss /\ lastFetch.resp = RequestError)
          => lastFetch.raised /\ tmdbCache = lastFetch.before
    /\ (FetchMiss /\ lastFetch.resp \in {NullBody, EmptyBody})
          => /\ ~lastFetch.raised
             /\ lastFetch.data = lastFetch.resp
             /\ tmdbCache = lastFetch.before
    /\ \A k \in SimilarIds :
          tmdbCache[k] # Absent
              => tmdbCache[k] \in {r \in FetchResults : r.kind = "dict"}

\* C27 witness: a miss whose fetch returned {} left the cache, which holds a
\* body under the other key, as it was.
C27_Witness ==
    /\ FetchMiss
    /\ lastFetch.resp = EmptyBody
    /\ lastFetch.data = EmptyBody
    /\ \E k \in SimilarIds : tmdbCache[k] \in ResultsBodies

\* ------------------------------------------------------ response bodies
\* JSON values as the views build them: a dict is a function from its keys,
\* None carries nothing.
Dict(items) == [kind |-> "dict", items |-> items]
JsonNone == [kind |-> "none", items |-> << >>]

\* CustomJSONRenderer.render: the body sent for response.data.  The status code
\* of the response is not among its inputs.
Rendered(data) ==
    IF data.kind = "dict" /\ "status" \in DOMAIN data.items
    THEN data
    ELSE Dict([status |-> "success", data |-> data])

\* custom_exception_handler, for an exception that REST framework's handler
\* turns into a response with this status code and this data.
ExceptionHandler(status_code, data) ==
    Dict([status |-> "error",
          error |-> [code |-> status_code, message |-> "An error occurred",
                     details |-> data]])

\* The REST_FRAMEWORK settings of the base settings module, which the test and
\* production settings import, install the renderer and the exception handler
\* of apps.core: the body a view's response is sent with, and the
\* response.data of an exception that REST framework's handler answers.
BodySent(data) == Rendered(data)

HandledException(status_code, data) == ExceptionHandler(status_code, data)

\* ----------------------------------------------------- listing endpoints
\* Query parameters as sent: None when the parameter is absent.
PageParams == {None, Some("2"), Some("abc")}
QueryParams == {None, Some(""), Some("  "), Some(" dune")}
TimeWindows == {None, Some("week"), Some("month")}

\* What the provider does if it is asked: a body with results, a body with
\* none, an error status, no answer in time, a body that is not JSON.
UpstreamAnswers == {"results", "no_results", "http_error", "timeout", "bad_json"}

\* The classes of the exception requests.get / raise_for_status /
\* response.json() raise for such an answer; {} when they raise nothing.
ExceptionOf(up) ==
    CASE up \in {"http_error", "timeout"} -> {"RequestException", "Exception"}
      [] up = "bad_json" -> {"JSONDecodeError", "ValueError", "Exception"}
      [] OTHER -> {}

\* int() of a page parameter: None stands for the ValueError.
IntOf(str) == IF str = "2" THEN Some(2) ELSE None

\* str.strip()
Strip(str) == IF str = " dune" THEN "dune" ELSE IF str = "  " THEN "" ELSE str

\* The provider's listing body for a page.
ListingBody(up, page) ==
    Dict([page |-> page,
          results |-> IF up = "results" THEN <<"Dune">> ELSE << >>,
          total_pages |-> IF up = "results" THEN 1 ELSE 0,
          total_results |-> IF up = "results" THEN 1 ELSE 0])

\* What a call of the service leaves behind: the endpoints requested, in
\* order, the error lines logged, the exception raised or the data returned.
ServiceOut(requested, logged, exc, data) ==
    [requested |-> requested, logged |-> logged, exc |-> exc, data |-> data]

\* _make_request for a listing endpoint: one requests.get; a
\* RequestException is logged and raised again, any other exception passes.
MakeListingRequest(endpoint, page, up) ==
    IF ExceptionOf(up) # {}
    THEN ServiceOut(<<endpoint>>,
                    IF "RequestException" \in ExceptionOf(up) THEN 1 ELSE 0,
                    ExceptionOf(up), JsonNone)
    ELSE ServiceOut(<<endpoint>>, 0, {}, ListingBody(up, page))

\* get_trending_movies
GetTrendingMovies(page, time_window, up) ==
    MakeListingRequest("trending/movie/"
                          \o (IF time_window \in {"day", "week"} THEN time_window ELSE "day"),
                       page, up)

\* get_popular_movies
GetPopularMovies(page, up) == MakeListingRequest("movie/popular", page, up)

\* The dict search_movies returns for a blank query.
ZeroResults == Dict([page |-> 1, results |-> << >>, total_pages |-> 0, total_results |-> 0])

\* Faulty variant of SearchMovies: the blank-query return is dropped.
SearchMoviesAlwaysAsks(query, page, up) == MakeListingRequest("search/movie", page, up)

\* search_movies
SearchMovies(query, page, up) ==
    IF query = "" \/ Strip(query) = ""
    THEN ServiceOut(<< >>, 0, {}, ZeroResults)
    ELSE MakeListingRequest("search/movie", page, up)

\* The try / except of the three listing views around the service call.
ListingResponse(out, invalid, failed) ==
    IF out.exc = {} THEN Response(200, out.data)
    ELSE IF "ValueError" \in out.exc THEN Response(400, Dict([error |-> invalid]))
    ELSE Response(500, Dict([error |-> failed]))

\* request.query_params.get('page', 1) through int()
PageOf(param) == IF param = None THEN Some(1) ELSE IntOf(param[1])

\* int() raised before the service was called.
NotCalled == ServiceOut(<< >>, 0, {"ValueError", "Exception"}, JsonNone)

NoList == [view |-> "none", page |-> None, query |-> None, time_window |-> None,
           upstream |-> "results", requested |-> << >>, logged |-> 0,
           response |-> Response(0, JsonNone), body |-> JsonNone]

\* The record of a listing request: what was sent, what the provider would
\* answer, what the view did and the body the renderer sent.
Listed(view, page, query, time_window, up, out, response) ==
    [view |-> view, page |-> page, query |-> query, time_window |-> time_window,
     upstream |-> up, requested |-> out.requested,
     logged |-> out.logged + (IF response.status_code = 500 THEN 1 ELSE 0),
     response |-> response, body |-> BodySent(response.data)]

\* TrendingMoviesView.get
TrendingGet ==
    \E page \in PageParams, time_window \in TimeWindows, up \in UpstreamAnswers :
        LET tw == IF time_window = None THEN "day" ELSE time_window[1]
            out == IF PageOf(page) = None THEN NotCalled
                   ELSE GetTrendingMovies(PageOf(page)[1],
                                          IF tw \in {"day", "week"} THEN tw ELSE "day", up)
        IN /\ lastList' = Listed("trending", page, None, time_window, up, out,
                                 ListingResponse(out, "Invalid request parameters",
                                                 "Failed to fetch trending movies"))
           /\ UNCHANGED <<recVars, viewVars, raceVars, favVars, userRows, tokens, lastAuth,
                          lastFetch, lastInv>>

\* PopularMoviesView.get
PopularGet ==
    \E page \in PageParams, up \in UpstreamAnswers :
        LET out == IF PageOf(page) = None THEN NotCalled
                   ELSE GetPopularMovies(PageOf(page)[1], up)
        IN /\ lastList' = Listed("popular", page, None, None, up, out,
                                 ListingResponse(out, "Invalid page number",
                                                 "Failed to fetch popular movies"))
           /\ UNCHANGED <<recVars, viewVars, raceVars, favVars, userRows, tokens, lastAuth,
                          lastFetch, lastInv>>

\* SearchMoviesView.get
SearchGet ==
    \E page \in PageParams, query \in QueryParams, up \in UpstreamAnswers :
        LET q == Strip(IF query = None THEN "" ELSE query[1])
            out == IF PageOf(page) = None THEN NotCalled
                   ELSE SearchMovies(q, PageOf(page)[1], up)
        IN /\ lastList' = Listed("search", page, query, None, up, out,
                                 ListingResponse(out, "Invalid request parameters",
                                                 "Failed to search movies"))
           /\ UNCHANGED <<recVars, viewVars, raceVars, favVars, userRows, tokens, lastAuth,
                          lastFetch, lastInv>>

\* ------------------------------------------------------------- accounts
\* The User table: username, email, password hash, active flag.  A username
\* names at most one user, and so does an email.
UserRow(username, email, hash, active) ==
    [username |-> username, email |-> email, password |-> hash, is_active |-> active]

\* Request fields as sent: None when the field is missing.
UsernameInputs == {None, Some(""), Some("ann"), Some("bob")}
EmailInputs == {None, Some(""), Some("not-an-email"), Some("ann@x.io"), Some("bob@x.io")}
PasswordInputs == {None, Some("12345"), Some("pw-of-ann"), Some("pw-of-bob")}

\* set_password / check_password: the stored value is a hash of the password.
MakePassword(password) == <<"hash", password>>

\* Faulty variant of CheckPassword: every password matches.
CheckPasswordAny(password, hash) == TRUE

CheckPassword(password, hash) == hash = MakePassword(password)

\* The accounts that exist before the first request: ann is active, bob has
\* been disabled.
InitialUsers == {UserRow("ann", "ann@x.io", MakePassword("pw-of-ann"), TRUE),
                 UserRow("bob", "bob@x.io", MakePassword("pw-of-bob"), FALSE)}

\* The value of a field, '' when it is missing.
Given(field) == IF field = None THEN "" ELSE field[1]

\* EmailField's format validation.
IsEmail(str) == str \in {"ann@x.io", "bob@x.io"}

\* django.contrib.auth.password_validation.validate_password
PasswordAccepted(password) == password \notin {"", "12345"}

\* RegisterSerializer.is_valid(): the fields in error.
RegisterErrors(rows, username, email, password) ==
    {f \in {"username"} : \/ Given(username) = ""
                           \/ \E r \in rows : r.username = Given(username)}
    \cup {f \in {"email"} : \/ ~IsEmail(Given(email))
                            \/ \E r \in rows : r.email = Given(email)}
    \cup {f \in {"password"} : ~PasswordAccepted(Given(password))}

\* django.contrib.auth.authenticate with the model backend: the user of that
\* name if the password matches and the account is active, else None.
Authenticate(rows, username, password) ==
    LET found == {r \in rows : /\ r.username = username
                               /\ CheckPassword(password, r.password)
                               /\ r.is_active}
    IN IF found = {} THEN None ELSE Some(CHOOSE r \in found : TRUE)

\* LoginSerializer: the field validation, then validate().  The outcome is the
\* errors by field ('non_field_errors' for those of validate) and the user.
LoginOutcome(errors, user) == [errors |-> errors, user |-> user]

LoginValidate(rows, username, email, password) ==
    LET fieldErrors ==
            {f \in {"email"} : email # None /\ Given(email) # "" /\ ~IsEmail(Given(email))}
            \cup {f \in {"password"} : Given(password) = ""}
        user == IF Given(username) # ""
                THEN Authenticate(rows, Given(username), Given(password))
                ELSE LET objs == {r \in rows : r.email = Given(email)} IN
                     IF objs = {} THEN None
                     ELSE Authenticate(rows, (CHOOSE r \in objs : TRUE).username,
                                       Given(password))
    IN IF fieldErrors # {} THEN LoginOutcome(fieldErrors, None)
       ELSE IF Given(username) = "" /\ Given(email) = ""
       THEN LoginOutcome({"non_field_errors"}, None)
       ELSE IF user = None THEN LoginOutcome({"non_field_errors"}, None)
       ELSE IF ~user[1].is_active THEN LoginOutcome({"non_field_errors"}, None)
       ELSE LoginOutcome({}, user)

\* The error body the two views build by hand.
ErrorEnvelope(code, message, details) ==
    Dict([status |-> "error",
          error |-> [code |-> code, message |-> message, details |-> details]])

\* The success body the two views build by hand; the tokens name the user.
TokenEnvelope(message, username) ==
    Dict([status |-> "success", message |-> message,
          data |-> [user |-> username, tokens |-> <<"refresh", "access">>]])

\* What a request to an accounts view does: the table, the user the tokens
\* were issued to, the response.
AuthOutcome(rows, issued, response) ==
    [rows |-> rows, issued |-> issued, response |-> response]

\* Faulty variant of RegisterPost: the user is saved before the validation's
\* verdict is looked at.
RegisterPostSavesFirst(rows, username, email, password) ==
    LET errors == RegisterErrors(rows, username, email, password)
        saved == rows \cup {UserRow(Given(username), Given(email),
                                    MakePassword(Given(password)), TRUE)}
    IN IF errors = {}
       THEN AuthOutcome(saved, username,
                        Response(201, TokenEnvelope("User registered successfully",
                                                    Given(username))))
       ELSE AuthOutcome(saved, None,
                        Response(400, ErrorEnvelope("VALIDATION_ERROR", "Invalid input data",
                                                    errors)))

\* RegisterView.post
RegisterPost(rows, username, email, password) ==
    LET errors == RegisterErrors(rows, username, email, password) IN
    IF errors = {}
    THEN AuthOutcome(rows \cup {UserRow(Given(username), Given(email),
                                        MakePassword(Given(password)), TRUE)},
                     username,
                     Response(201, TokenEnvelope("User registered successfully",
                                                 Given(username))))
    ELSE AuthOutcome(rows, None,
                     Response(400, ErrorEnvelope("VALIDATION_ERROR", "Invalid input data",
                                                 errors)))

\* LoginView.post
LoginPost(rows, username, email, password) ==
    LET out == LoginValidate(rows, username, email, password) IN
    IF out.errors = {}
    THEN AuthOutcome(rows, Some(out.user[1].username),
                     Response(200, TokenEnvelope("Login successful", out.user[1].username)))
    ELSE AuthOutcome(rows, None,
                     Response(400, ErrorEnvelope("AUTHENTICATION_ERROR", "Invalid credentials",
                                                 out.errors)))

NoAuth == [op |-> "none", username |-> None, email |-> None, password |-> None,
           before |-> {}, issued |-> None, response |-> Response(0, JsonNone),
           body |-> JsonNone]

\* The record of the accounts request just served.
Authed(op, username, email, password, out) ==
    [op |-> op, username |-> username, email |-> email, password |-> password,
     before |-> userRows, issued |-> out.issued, response |-> out.response,
     body |-> BodySent(out.response.data)]

\* POST auth/register/
Register ==
    \E username \in UsernameInputs, email \in EmailInputs, password \in PasswordInputs :
        LET out == RegisterPost(userRows, username, email, password) IN
        /\ userRows' = out.rows
        /\ tokens' = IF out.issued = None THEN tokens ELSE tokens \cup {out.issued[1]}
        /\ lastAuth' = Authed("register", username, email, password, out)
        /\ UNCHANGED <<recVars, viewVars, raceVars, favVars, lastList, lastFetch, lastInv>>

\* POST auth/login/
Login ==
    \E username \in UsernameInputs, email \in EmailInputs, password \in PasswordInputs :
        LET out == LoginPost(userRows, username, email, password) IN
        /\ userRows' = out.rows
        /\ tokens' = IF out.issued = None THEN tokens ELSE tokens \cup {out.issued[1]}
        /\ lastAuth' = Authed("login", username, email, password, out)
        /\ UNCHANGED <<recVars, viewVars, raceVars, favVars, lastList, lastFetch, lastInv>>

\* ------------------------------------------------------- listing claims
\* The body is the uniform error envelope: status 'error' and an error member.
IsErrorEnvelope(body) ==
    /\ body.kind = "dict"
    /\ {"status", "error"} \subseteq DOMAIN body.items
    /\ body.items.status = "error"

\* The body is the uniform success envelope: status 'success' and a data member.
IsSuccessEnvelope(body) ==
    /\ body.kind = "dict"
    /\ {"status", "data"} \subseteq DOMAIN body.items
    /\ body.items.status = "success"

\* The listing request just served asked the provider, whose request failed.
UpstreamFailed ==
    /\ lastList.view # "none"
    /\ lastList.requested # << >>
    /\ lastList.upstream \in {"http_error", "timeout"}

\* C21 as stated: when the provider request of a listing call fails, exactly
\* one upstream request was made and the caller receives a 500 whose body is
\* the uniform error envelope.
C21_UpstreamFailureIs500ErrorEnvelope ==
    UpstreamFailed
        => /\ Len(lastList.requested) = 1
           /\ lastList.response.status_code = 500
           /\ IsErrorEnvelope(lastList.body)

\* The search request just served carried no query, an empty one or blanks.
BlankQuery ==
    /\ lastList.view = "search"
    /\ lastList.query \in {None, Some(""), Some("  ")}

\* The search request just served was answered 200 with zero results.
ZeroResultsServed ==
    /\ lastList.response.status_code = 200
    /\ IsSuccessEnvelope(lastList.body)
    /\ lastList.body.items.data.items.results = << >>
    /\ lastList.body.items.data.items.total_pages = 0
    /\ lastList.body.items.data.items.total_results = 0

\* C24 as stated: every search request with a blank query is answered 200 with
\* zero results and makes no upstream request.
C24_Original_BlankQueryIsEmpty200 ==
    BlankQuery => ZeroResultsServed /\ lastList.requested = << >>

\* C24 amended: a search request with a blank query makes no upstream request;
\* it is answered 200 with zero results when its page parameter is absent or an
\* integer, and 400 when the page parameter is not an integer.
C24_BlankQueryAsksNothing ==
    BlankQuery
        => /\ lastList.requested = << >>
           /\ lastList.page \in {None, Some("2")} => ZeroResultsServed
           /\ lastList.page = Some("abc") => lastList.response.status_code = 400

\* C24 witness: a blank query with page 2 was answered 200 with zero results
\* while the provider was failing.
C24_Witness ==
    /\ BlankQuery
    /\ lastList.query = Some("  ")
    /\ lastList.page = Some("2")
    /\ lastList.upstream = "http_error"
    /\ ZeroResultsServed

\* ------------------------------------------------------- account claims
\* The accounts request just served failed validation.
ValidationFailed ==
    \/ /\ lastAuth.op = "register"
       /\ RegisterErrors(lastAuth.before, lastAuth.username, lastAuth.email,
                         lastAuth.password) # {}
    \/ /\ lastAuth.op = "login"
       /\ LoginValidate(lastAuth.before, lastAuth.username, lastAuth.email,
                        lastAuth.password).errors # {}

\* C23: a registration or login request that fails validation is answered with
\* a 4xx whose body is the error envelope with the errors by field as details;
\* the User table is what it was and no tokens are issued.
C23_ValidationFailureChangesNothing ==
    ValidationFailed
        => /\ lastAuth.response.status_code \in 400..499
           /\ IsErrorEnvelope(lastAuth.body)
           /\ lastAuth.body.items.error.details # {}
           /\ lastAuth.body.items.error.details
                 \subseteq {"username", "email", "password", "non_field_errors"}
           /\ userRows = lastAuth.before
           /\ lastAuth.issued = None

\* C23 witness: a registration under a name that is taken, with a password the
\* validators refuse, was answered with both fields in the details.
C23_Witness ==
    /\ lastAuth.op = "register"
    /\ lastAuth.username = Some("ann")
    /\ lastAuth.body.items.error.details = {"username", "password"}
    /\ userRows = lastAuth.before
    /\ userRows # {}

\* The password sent matches an active user of this table, named by the
\* username sent or, when no username is sent, by the email sent.
CorrectCredentials(rows, username, email, password) ==
    \E r \in rows :
        /\ r.is_active
        /\ r.password = MakePassword(Given(password))
        /\ IF Given(username) # "" THEN r.username = Given(username)
           ELSE r.email = Given(email)

\* The login request just served is one of the refused kinds: neither
\* username nor email, a wrong password, an unknown email, an inactive account.
RefusedKind ==
    LET named == {r \in lastAuth.before :
                     IF Given(lastAuth.username) # ""
                     THEN r.username = Given(lastAuth.username)
                     ELSE r.email = Given(lastAuth.email)}
    IN \/ Given(lastAuth.username) = "" /\ Given(lastAuth.email) = ""
       \/ \E r \in named : r.password # MakePassword(Given(lastAuth.password))
       \/ Given(lastAuth.username) = "" /\ named = {}
       \/ \E r \in named : ~r.is_active

\* C28: a login is answered 200 with tokens only when the password sent matches
\* an active user named by the username or, without username, by the email; a
\* login of one of the refused kinds is answered 400 and issues no tokens.
C28_TokensOnlyForAuthenticatedActiveUser ==
    lastAuth.op = "login"
        => /\ (lastAuth.response.status_code = 200 \/ lastAuth.issued # None)
                => /\ CorrectCredentials(lastAuth.before, lastAuth.username,
                                         lastAuth.email, lastAuth.password)
                   /\ lastAuth.response.status_code = 200
                   /\ \E r \in lastAuth.before :
                         /\ lastAuth.issued = Some(r.username)
                         /\ r.is_active
                         /\ r.password = MakePassword(Given(lastAuth.password))
           /\ RefusedKind
                => /\ lastAuth.response.status_code = 400
                   /\ lastAuth.issued = None
                   /\ "tokens" \notin DOMAIN lastAuth.body.items

\* C28 witness: a login by email, without username, of an active user was
\* answered 200 with tokens while a disabled account exists.
C28_Witness ==
    /\ lastAuth.op = "login"
    /\ Given(lastAuth.username) = ""
    /\ lastAuth.email = Some("ann@x.io")
    /\ lastAuth.response.status_code = 200
    /\ lastAuth.issued = Some("ann")
    /\ "ann" \in tokens
    /\ \E r \in userRows : ~r.is_active

\* ------------------------------------------------------- envelope claim
\* response.data of the favorites request just served: the handled Http404 of
\* get_object, the detail dicts of favorite and remove_favorite, nothing for a
\* 204, the page of a list, the serializer's data otherwise.
FavResponseData(served) ==
    IF served.detail = NotFound.detail
    THEN HandledException(404, Dict([detail |-> served.detail]))
    ELSE IF served.detail # ""
    THEN Dict([detail |-> served.detail])
    ELSE IF served.status = 204
    THEN JsonNone
    ELSE IF served.op = "list"
    THEN Dict([count |-> Cardinality(served.listed), results |-> served.listed])
    ELSE Dict([id |-> served.target, user |-> served.user, movie |-> served.movie])

\* The body is one of the two envelopes.
IsEnvelope(body) == IsSuccessEnvelope(body) \/ IsErrorEnvelope(body)

\* C22 as stated, for the favorites endpoints: every JSON body is wrapped
\* exactly once in the uniform envelope, status 'success' with a data member
\* for a 2xx, status 'error' with an error member for a 4xx or 5xx, and a body
\* that is already an envelope is sent as it is.
C22_EveryBodyEnvelopedOnce ==
    (lastFav.op # "none" /\ ~lastFav.raised)
        => LET data == FavResponseData(lastFav)
               body == BodySent(data)
           IN /\ lastFav.status \in 200..299 => IsSuccessEnvelope(body)
              /\ lastFav.status \in 400..599 => IsErrorEnvelope(body)
              /\ IsEnvelope(data) => body = data

\* ------------------------------------------------- favorite update claim
\* The request just served was an update that the owner's row answered 200.
UpdateServed == lastFav.op = "update" /\ lastFav.status = 200 /\ ~lastFav.raised

\* The row with this id in a table (a set of at most one row).
RowWithId(rows, id) == {r \in rows : r.id = id}

\* C25 as stated: an update of a favorite by its owner leaves the row's user and
\* movie link as they were, whatever the request body, and changes no other
\* Favorite row.
C25_UpdateChangesOnlyNotes ==
    UpdateServed
        => /\ \A old \in RowWithId(lastFav.before, lastFav.target) :
                 \E new \in RowWithId(favRows, lastFav.target) :
                     new.user = old.user /\ new.movie = old.movie
           /\ {r \in favRows : r.id # lastFav.target}
                 = {r \in lastFav.before : r.id # lastFav.target}

\* --------------------------------------------------- view cache store claim
\* The payloads of the non-200 responses of the wrapped view.
NonOkPayloads == {r.data : r \in {v \in ViewResponses : v.status_code # 200}}

\* C26: the view cache never holds the payload of a non-200 response, and a
\* request whose wrapped view answers with a status other than 200 leaves the
\* cache as it was.
C26_OnlyStatus200Stored ==
    [][/\ \A k \in DOMAIN viewCache' : viewCache'[k].data \notin NonOkPayloads
       /\ (lastView'.called /\ lastView'.invoked = 1
              /\ lastView'.computed.status_code # 200)
             => viewCache' = viewCache]_vars

\* C26 witness: the wrapped view was invoked and answered 404 while the cache
\* held an entry of an earlier request; the request's own key holds nothing.
C26_Witness ==
    /\ lastView.called
    /\ lastView.invoked = 1
    /\ lastView.computed.status_code = 404
    /\ viewCache # << >>
    /\ ~EntryOfLastView.present

\* ------------------------------------------- recommendation exclusion claim
\* C30 as stated: whatever path get_user_recommendations takes, the list it
\* returns holds no movie the user has favorited.
C30_Original_NoFavoriteReturned ==
    (lastRec.called /\ ~lastRec.raised)
        => ResultIds(lastRec.result) \cap FavsOf(lastRec.user) = {}

\* C30 amended: the list returned on the personalized path holds no movie the
\* user has favorited; the list returned on the empty-tag and the error
\* fallback paths is the first `limit` movies of the whole catalog by
\* (popularity desc, vote_average desc), the user's favorites not removed.
C30_NoFavoriteOnPersonalizedPath ==
    (lastRec.called /\ ~lastRec.raised)
        => /\ lastRec.path = "personalized"
                => ResultIds(lastRec.result) \cap FavsOf(lastRec.user) = {}
           /\ lastRec.path \in {"no_genres", "error_fallback"}
                => IsTopOf(lastRec.result, Catalog, lastRec.limit)

\* C30 witness: on the personalized path a movie was returned that a tagged
\* favorite of the user outranks strictly.
C30_Witness ==
    /\ lastRec.called
    /\ lastRec.path = "personalized"
    /\ \E f \in FavsOf(lastRec.user), i \in 1..Len(lastRec.result) :
          /\ movies[f].genre_ids # {}
          /\ ~RanksAtLeast(lastRec.result[i].tmdb_id, f)

\* ------------------------------------------------------- specifications

\* No listing, account, provider-cache or invalidation request was served (the
\* other specifications).
ApiIdle ==
    /\ lastList = NoList
    /\ userRows = {}
    /\ tokens = {}
    /\ lastAuth = NoAuth
    /\ lastFetch = NoFetch
    /\ lastInv = NoInv


\* The catalogs are taken up to a renaming of the tmdb_ids (no query reads the
\* id's value): the rows fill the ids 1..n and are listed by increasing
\* (popularity, vote_average, genre_ids).
GenreCode(g) == IF g = {} THEN 0 ELSE IF g = {1} THEN 1 ELSE IF g = {2} THEN 2 ELSE 3

RowCode(r) == (r.popularity * 2 + r.vote_average) * 4 + GenreCode(r.genre_ids)

DenseSorted(cat) ==
    \A m \in MovieIds \ {MaxMovies} :
        cat[m + 1].exists => cat[m].exists /\ RowCode(cat[m]) <= RowCode(cat[m + 1])

\* get_user_recommendations over every catalog and every set of favorites of
\* user 1; the other users have none.
Init ==
    /\ movies \in {cat \in [MovieIds -> Movie \cup {NoMovie}] : DenseSorted(cat)}
    /\ favorites \in SUBSET ({1} \X Catalog)
    /\ lastRec = NoRec
    /\ tmdbCache = [k \in SimilarIds |-> Absent]
    /\ lastSim = NoSim
    /\ viewCache = << >>
    /\ config = [impl |-> "views", anon_timeout |-> 60 * 15, auth_timeout |-> None]
    /\ lastView = NoView
    /\ viewOwner = << >>
    /\ procs = [p \in Procs |-> DoneProc]
    /\ lastWrite = NoWrite
    /\ FavIdle
    /\ ApiIdle

Next == GetUserRecommendations

Spec == Init /\ [][Next]_vars

\* get_similar_movies over every catalog and every content of the provider
\* cache that earlier calls may have left.
SimInit ==
    /\ movies \in {cat \in [MovieIds -> Movie \cup {NoMovie}] : DenseSorted(cat)}
    /\ favorites = {}
    /\ lastRec = NoRec
    /\ tmdbCache \in [SimilarIds -> Storable \cup {Absent}]
    /\ lastSim = NoSim
    /\ viewCache = << >>
    /\ config = [impl |-> "views", anon_timeout |-> 60 * 15, auth_timeout |-> None]
    /\ lastView = NoView
    /\ viewOwner = << >>
    /\ procs = [p \in Procs |-> DoneProc]
    /\ lastWrite = NoWrite
    /\ FavIdle
    /\ ApiIdle

SimNext == GetSimilarMovies

SimSpec == SimInit /\ [][SimNext]_vars

\* The decorated view under every decorator and timeout arguments, from an
\* empty cache.
CacheInit ==
    /\ movies = [m \in MovieIds |-> NoMovie]
    /\ favorites = {}
    /\ lastRec = NoRec
    /\ tmdbCache = [k \in SimilarIds |-> Absent]
    /\ lastSim = NoSim
    /\ viewCache = << >>
    /\ config \in Configs
    /\ lastView = NoView
    /\ viewOwner = << >>
    /\ procs = [p \in Procs |-> DoneProc]
    /\ lastWrite = NoWrite
    /\ FavIdle
    /\ ApiIdle

CacheNext == Request \/ Expire

CacheSpec == CacheInit /\ [][CacheNext]_vars

\* Concurrent requests for one key, from an empty cache: requests to the
\* decorated view under every decorator, caller and path, or calls of
\* _get_cached_or_fetch for one movie's recommendations.
RaceInit ==
    /\ movies = [m \in MovieIds |-> NoMovie]
    /\ favorites = {}
    /\ lastRec = NoRec
    /\ tmdbCache = [k \in SimilarIds |-> Absent]
    /\ lastSim = NoSim
    /\ viewCache = << >>
    /\ config \in Configs
    /\ lastView = NoView
    /\ viewOwner = << >>
    /\ \E kind \in {"view", "tmdb"}, caller \in Callers, path \in Paths :
          procs = [p \in Procs |->
                     IF kind = "view" THEN StartProc(kind, caller, path, 0)
                     ELSE StartProc(kind, 0, "", 1)]
    /\ lastWrite = NoWrite
    /\ FavIdle
    /\ ApiIdle

RaceNext == \E p \in Procs : ProcStep(p)

RaceSpec == RaceInit /\ [][RaceNext]_vars

\* The favorites endpoints served one request at a time, from every set of
\* existing movies and users and an empty FavoriteMovie table.
FavInit ==
    /\ movies \in {cat \in [MovieIds -> {NoMovie, AMovie}] :
                      \A m \in MovieIds \ FavMovies : ~cat[m].exists}
    /\ favorites = {}
    /\ lastRec = NoRec
    /\ tmdbCache = [k \in SimilarIds |-> Absent]
    /\ lastSim = NoSim
    /\ viewCache = << >>
    /\ config = RetrieveConfig
    /\ lastView = NoView
    /\ viewOwner = << >>
    /\ procs = [p \in Procs |-> DoneProc]
    /\ lastWrite = NoWrite
    /\ accounts \in SUBSET FavUsers
    /\ favRows = {}
    /\ nextId = 1
    /\ lastFav = NoFav
    /\ workers = << >>
    /\ ApiIdle

FavNext ==
    \/ Favorite \/ RemoveFavorite \/ Create
    \/ List \/ Retrieve \/ Update \/ Destroy
    \/ DeleteMovie \/ DeleteUser

FavSpec == FavInit /\ [][FavNext]_vars

\* Concurrent favorite-creating requests, interleaved statement by statement
\* with each other and with updates, removals and cascades.
FavRaceInit ==
    /\ movies = [m \in MovieIds |-> IF m \in FavMovies THEN AMovie ELSE NoMovie]
    /\ favorites = {}
    /\ lastRec = NoRec
    /\ tmdbCache = [k \in SimilarIds |-> Absent]
    /\ lastSim = NoSim
    /\ viewCache = << >>
    /\ config = RetrieveConfig
    /\ lastView = NoView
    /\ viewOwner = << >>
    /\ procs = [p \in Procs |-> DoneProc]
    /\ lastWrite = NoWrite
    /\ accounts = FavUsers
    /\ favRows = {}
    /\ nextId = 1
    /\ lastFav = NoFav
    /\ workers = [w \in Workers |-> StartWorker]
    /\ ApiIdle

FavRaceNext ==
    \/ \E w \in Workers : WorkerStep(w)
    \/ RemoveFavorite \/ Update \/ Destroy
    \/ DeleteMovie \/ DeleteUser

FavRaceSpec == FavRaceInit /\ [][FavRaceNext]_vars

\* The listing endpoints, one request at a time, for every answer of the
\* provider.
ListInit ==
    /\ movies = [m \in MovieIds |-> NoMovie]
    /\ favorites = {}
    /\ lastRec = NoRec
    /\ tmdbCache = [k \in SimilarIds |-> Absent]
    /\ lastSim = NoSim
    /\ viewCache = << >>
    /\ config = RetrieveConfig
    /\ lastView = NoView
    /\ viewOwner = << >>
    /\ procs = [p \in Procs |-> DoneProc]
    /\ lastWrite = NoWrite
    /\ FavIdle
    /\ ApiIdle

ListNext == TrendingGet \/ PopularGet \/ SearchGet

ListSpec == ListInit /\ [][ListNext]_vars

\* Registration and login, one request at a time, from every set of the
\* initial accounts.
AuthInit ==
    /\ movies = [m \in MovieIds |-> NoMovie]
    /\ favorites = {}
    /\ lastRec = NoRec
    /\ tmdbCache = [k \in SimilarIds |-> Absent]
    /\ lastSim = NoSim
    /\ viewCache = << >>
    /\ config = RetrieveConfig
    /\ lastView = NoView
    /\ viewOwner = << >>
    /\ procs = [p \in Procs |-> DoneProc]
    /\ lastWrite = NoWrite
    /\ FavIdle
    /\ lastList = NoList
    /\ userRows \in SUBSET InitialUsers
    /\ tokens = {}
    /\ lastAuth = NoAuth
    /\ lastFetch = NoFetch
    /\ lastInv = NoInv

AuthNext == Register \/ Login

AuthSpec == AuthInit /\ [][AuthNext]_vars

\* The provider cache under repeated calls, for every outcome of the fetch.
TmdbInit ==
    /\ movies = [m \in MovieIds |-> NoMovie]
    /\ favorites = {}
    /\ lastRec = NoRec
    /\ tmdbCache = [k \in SimilarIds |-> Absent]
    /\ lastSim = NoSim
    /\ viewCache = << >>
    /\ config = RetrieveConfig
    /\ lastView = NoView
    /\ viewOwner = << >>
    /\ procs = [p \in Procs |-> DoneProc]
    /\ lastWrite = NoWrite
    /\ FavIdle
    /\ ApiIdle

TmdbNext == GetMovieRecommendations \/ TmdbExpire

TmdbSpec == TmdbInit /\ [][TmdbNext]_vars

\* The decorated view under requests, expiry and invalidations, for both
\* decorators with the arguments of MovieViewSet.retrieve.
InvInit ==
    /\ movies = [m \in MovieIds |-> NoMovie]
    /\ favorites = {}
    /\ lastRec = NoRec
    /\ tmdbCache = [k \in SimilarIds |-> Absent]
    /\ lastSim = NoSim
    /\ viewCache = << >>
    /\ config \in {c \in Configs : c.anon_timeout = 60 * 15 /\ c.auth_timeout = None}
    /\ lastView = NoView
    /\ viewOwner = << >>
    /\ procs = [p \in Procs |-> DoneProc]
    /\ lastWrite = NoWrite
    /\ FavIdle
    /\ ApiIdle

InvNext == Request \/ Expire \/ InvalidateUserCache

InvSpec == InvInit /\ [][InvNext]_vars

====
